---- MODULE Spec2Model ----
(***************************************************************************)
(* A model of the 2D robotics simulator: core/simulator.py (Simulator),    *)
(* middle_level_library/base.py (Sensor, Motor), motors.py (WheelMotor,    *)
(* _solve_wheel_traction) and low_level_mechanics/entities.py (SimObject). *)
(*                                                                         *)
(* Conventions.                                                            *)
(*  - A Python dict is a sequence of [k, v] entries in insertion order     *)
(*    (Python dicts iterate in insertion order; assigning to an existing   *)
(*    key keeps its position).                                             *)
(*  - Motion is along the x axis with heading 0 (cos = 1, sin = 0), so a   *)
(*    pose is its x coordinate and its heading.  Lengths are in            *)
(*    micrometres, speeds in millimetres per second, masses in grams,      *)
(*    forces in millinewtons, impulses in micronewton seconds (= gram *    *)
(*    mm/s), friction and restitution coefficients in hundredths, angular  *)
(*    speeds in milliradians per second, commands in thousandths.          *)
(*  - The timestep is 1/hz seconds and is carried as hz, so x * dt is      *)
(*    x \div hz.  Quantities are integers in these units and every         *)
(*    division truncates toward zero (Quot), so values agree with the      *)
(*    program's floats only to the resolution of the unit.                 *)
(*  - A sensor's sample timer is a Python float that is only ever added    *)
(*    to and compared; it is modelled bit-exactly as an IEEE-754 double.   *)
(***************************************************************************)
EXTENDS Integers, Sequences, FiniteSets, TLC

VARIABLES
    sim,      \* the Simulator object (a record of its fields)
    twin,     \* a second Simulator driven by the same calls (second run)
    snap,     \* the SnapshotState last returned by snapshot(), with the fields it was taken from
    op,       \* the last API call made and its outcome
    ctl,      \* what the controllers did during the last step()
    heap,     \* number of controller objects constructed so far (object identity)
    wheel,    \* a free-standing body + WheelMotor pair (traction solver harness)
    disk,     \* a RobotConfig object, the design files saved from it and what was loaded back
    world     \* a free-standing World: its objects and the components mounted on them

vars == <<sim, twin, snap, op, ctl, heap, wheel, disk, world>>

\* Optional[T]: None, or a one-element tuple holding the value
None == <<>>

Some(value) == <<value>>

(***************************************************************************)
(* Small helpers.                                                          *)
(***************************************************************************)
Abs(x) == IF x < 0 THEN -x ELSE x

Min(a, b) == IF a < b THEN a ELSE b

Max(a, b) == IF a > b THEN a ELSE b

\* motors.py / sensors.py _clamp: max(lo, min(hi, value))
Clamp(value, lo, hi) == Max(lo, Min(hi, value))

\* Python float division x / y on fixed-point integers: exact quotient
\* truncated toward zero (TLA+ \div floors).
Quot(x, y) == IF (x < 0) = (y < 0) THEN Abs(x) \div Abs(y) ELSE -(Abs(x) \div Abs(y))

CeilDiv(a, b) == (a + b - 1) \div b

Range(s) == {s[i] : i \in 1..Len(s)}

(***************************************************************************)
(* Python dict as an insertion-ordered sequence of entries.                *)
(***************************************************************************)
DictKeys(d) == {d[i].k : i \in 1..Len(d)}

DictHas(d, key) == \E i \in 1..Len(d) : d[i].k = key

DictIndex(d, key) == CHOOSE i \in 1..Len(d) : d[i].k = key

\* d.get(key, default)
DictGet(d, key, default) == IF DictHas(d, key) THEN d[DictIndex(d, key)].v ELSE default

\* d[key] = value
DictPut(d, key, value) ==
    IF DictHas(d, key)
    THEN [d EXCEPT ![DictIndex(d, key)] = [k |-> key, v |-> value]]
    ELSE Append(d, [k |-> key, v |-> value])

\* d.pop(key, None)
DictPop(d, key) ==
    IF DictHas(d, key)
    THEN LET i == DictIndex(d, key)
         IN SubSeq(d, 1, i - 1) \o SubSeq(d, i + 1, Len(d))
    ELSE d

\* list(d.values())
DictValues(d) == [i \in 1..Len(d) |-> d[i].v]

(***************************************************************************)
(* IEEE-754 binary64 for values >= 0: v = (hi * 2^26 + lo) * 2^e with a    *)
(* 53-bit significand split in two limbs, 2^26 <= hi < 2^27, 0 <= lo <     *)
(* 2^26.  Zero is hi = lo = 0.  Sums are formed with three extra low bits  *)
(* (guard, round, sticky) and rounded to nearest, ties to even.            *)
(***************************************************************************)
DZero == [e |-> 0, hi |-> 0, lo |-> 0]

DIsZero(a) == a.hi = 0 /\ a.lo = 0

\* (hi, lo8) >> n for 0 <= n <= 29, lo8 a 29-bit limb; lost 1-bits stick to bit 0
DShr(hi, lo8, n) ==
    LET p    == 2 ^ n
        lo1  == (lo8 \div p) + (hi % p) * (2 ^ (29 - n))
        lost == (lo8 % p) # 0
    IN [hi |-> hi \div p, lo8 |-> IF lost /\ lo1 % 2 = 0 THEN lo1 + 1 ELSE lo1]

DShrAny(hi, lo8, n) ==
    IF n <= 29 THEN DShr(hi, lo8, n)
    ELSE IF n <= 58 THEN LET h == DShr(hi, lo8, 29) IN DShr(h.hi, h.lo8, n - 29)
    ELSE [hi |-> 0, lo8 |-> 1]

\* round a significand with three extra bits to 53 bits, ties to even
DRound(e, hi, lo8) ==
    LET low3 == lo8 % 8
        lo0  == lo8 \div 8
        up   == low3 > 4 \/ (low3 = 4 /\ lo0 % 2 = 1)
        lo1  == IF up THEN lo0 + 1 ELSE lo0
        hi1  == IF lo1 = 2 ^ 26 THEN hi + 1 ELSE hi
        lo2  == IF lo1 = 2 ^ 26 THEN 0 ELSE lo1
    IN IF hi1 = 2 ^ 27
       THEN [e |-> e + 1, hi |-> 2 ^ 26, lo |-> 0]
       ELSE [e |-> e, hi |-> hi1, lo |-> lo2]

\* a + b for a.e >= b.e, both non-zero
DAddOrdered(a, b) ==
    LET bs    == DShrAny(b.hi, b.lo * 8, a.e - b.e)
        losum == a.lo * 8 + bs.lo8
        lo8   == losum % (2 ^ 29)
        hi    == a.hi + bs.hi + (losum \div (2 ^ 29))
    IN IF hi >= 2 ^ 27
       THEN LET n == DShr(hi, lo8, 1) IN DRound(a.e + 1, n.hi, n.lo8)
       ELSE DRound(a.e, hi, lo8)

\* Python float a + b, a, b >= 0
DAdd(a, b) ==
    IF DIsZero(a) THEN b
    ELSE IF DIsZero(b) THEN a
    ELSE DAddOrdered(IF a.e >= b.e THEN a ELSE b, IF a.e >= b.e THEN b ELSE a)

\* Python float a >= b, a, b >= 0
DGeq(a, b) ==
    IF DIsZero(b) THEN TRUE
    ELSE IF DIsZero(a) THEN FALSE
    ELSE IF a.e # b.e THEN a.e > b.e
    ELSE IF a.hi # b.hi THEN a.hi > b.hi
    ELSE a.lo >= b.lo

\* least s with 2^s >= n, for 2 <= n < 2^12
Log2Ceil(n) == CHOOSE s \in 1..12 : 2 ^ s >= n /\ 2 ^ (s - 1) < n

\* Python float 1.0 / n for an integer 2 <= n < 2^12: the quotient
\* floor(2^(s+53) / n) by long division in chunks of 18, 18 and 17 bits,
\* its last bit the guard bit, the remainder the sticky bit
DInv(n) ==
    LET s  == Log2Ceil(n)
        r0 == 2 ^ s - n
        q1 == (r0 * 2 ^ 18) \div n
        r1 == (r0 * 2 ^ 18) % n
        q2 == (r1 * 2 ^ 18) \div n
        r2 == (r1 * 2 ^ 18) % n
        q3 == (r2 * 2 ^ 17) \div n
        r3 == (r2 * 2 ^ 17) % n
        hi == 2 ^ 26 + q1 * 2 ^ 8 + (q2 \div 2 ^ 10)
        lo == (q2 % 2 ^ 10) * 2 ^ 16 + (q3 \div 2)
        g  == q3 % 2
    IN DRound(-(s + 52), hi, lo * 8 + g * 4 + (IF r3 # 0 THEN 1 ELSE 0))

(***************************************************************************)
(* Bodies (entities.py SimObject + DynamicState) and impulses (motors.py). *)
(***************************************************************************)
\* SimObject as built by Simulator._make_body: pose, velocity, mass, shape
\* (an axis-aligned box of half-width half), material; force is the sum of
\* _pending_forces along x, in micronewtons (gram * mm/s^2)
Body(x, mass, half, can_move, restitution, line_intensity) ==
    [x |-> x, theta |-> 0, v |-> 0, w |-> 0, mass |-> mass, half |-> half,
     can_move |-> can_move, restitution |-> restitution,
     line_intensity |-> line_intensity, force |-> 0]

\* SimObject.apply_force((force, 0))
apply_force(body, force) == [body EXCEPT !.force = body.force + force]

\* motors.py _apply_impulse with the contact point at the body centre
\* (rx = ry = 0): v += j * inv_mass, no angular part
apply_impulse(body, j) ==
    IF ~body.can_move \/ body.mass <= 0 THEN body
    ELSE [body EXCEPT !.v = body.v + Quot(j, body.mass)]

\* motors.py _contact_velocity along forward = (1, 0) at the body centre
contact_velocity(body) == body.v

\* motors.py _inv_mass_term is 1 / mass at the body centre; impulses are
\* divided by it, so the model carries its reciprocal (0 stands for an
\* inverse mass of 0.0)
mass_term(body) == IF ~body.can_move \/ body.mass <= 0 THEN 0 ELSE body.mass

\* TractionReport returned by _solve_wheel_traction for a body that cannot move
StaticReport(preferred_speed, normal_load) ==
    [step |-> None, slip_ratio |-> 0, preferred_speed |-> preferred_speed, contact_speed |-> 0,
     contact_speed_after |-> 0, desired_longitudinal_impulse |-> 0,
     applied_longitudinal_impulse |-> 0, applied_lateral_impulse |-> 0,
     normal_load |-> normal_load]

\* slip_ratio of _solve_wheel_traction, in thousandths:
\* (preferred_speed - v_long) / max(|preferred_speed|, |v_long|, 0.05)
slip_ratio_of(preferred_speed, v_long) ==
    Quot((preferred_speed - v_long) * 1000, Max(Max(Abs(preferred_speed), Abs(v_long)), 50))

\* a long_limit that no traction limit and no drive cap bounds
long_limit_unbounded(max_long_impulse, drive_cap) == 100000000

\* long_limit of _solve_wheel_traction: the traction limit, capped by the
\* drive cap, and the drive cap alone when the traction limit is not positive
long_limit_of(max_long_impulse, drive_cap) ==
    IF drive_cap > 0
    THEN IF max_long_impulse > 0 THEN Min(max_long_impulse, drive_cap) ELSE drive_cap
    ELSE max_long_impulse

\* motors.py _solve_wheel_traction with forward = (1, 0) and no lateral
\* motion (v_lat = 0, so j_lat = 0 and lat_ratio = 0).  Returns the body
\* after the impulse and the report.
solve_wheel_traction(body, preferred_speed, drive_impulse_cap, mu_long, normal_load_in, hz) ==
    IF ~body.can_move
    THEN [body |-> body, report |-> StaticReport(preferred_speed, normal_load_in)]
    ELSE
    LET normal_load      == Max(normal_load_in, 0)
        max_long_impulse == Max(0, (Abs(mu_long) * normal_load * 10) \div hz)
        drive_cap        == Max(0, Abs(drive_impulse_cap))
        v_long           == contact_velocity(body)
        m                == mass_term(body)
        desired_impulse  == IF m > 0 THEN (preferred_speed - v_long) * m ELSE 0
        long_limit       == long_limit_of(max_long_impulse, drive_cap)
        j_drive          == IF m > 0 /\ long_limit > 0
                            THEN Clamp(desired_impulse, -long_limit, long_limit)
                            ELSE 0
        after            == IF j_drive # 0 THEN apply_impulse(body, j_drive) ELSE body
    IN [body |-> after,
        report |-> [step |-> None, slip_ratio |-> slip_ratio_of(preferred_speed, v_long),
                    preferred_speed |-> preferred_speed,
                    contact_speed |-> v_long,
                    contact_speed_after |-> contact_velocity(after),
                    desired_longitudinal_impulse |-> desired_impulse,
                    applied_longitudinal_impulse |-> j_drive,
                    applied_lateral_impulse |-> 0,
                    normal_load |-> normal_load]]

\* WheelMotor.__init__ / Motor.__init__ with the parameters that
\* Simulator._attach_actuator passes
WheelMotor(max_force, mu_long, normal_force, wheel_count, wheel_radius, response_time, max_wheel_omega) ==
    [parent |-> None, max_command |-> 1000, last_command |-> 0,
     max_force |-> max_force, mu_long |-> mu_long, normal_force |-> normal_force,
     wheel_count |-> Max(1, wheel_count), wheel_radius |-> wheel_radius,
     response_time |-> response_time, max_wheel_omega |-> max_wheel_omega,
     angular_speed |-> 0, last_report |-> None]

\* MountedComponent.attach(parent): the component refers to its parent body
\* by the key the body has in Simulator.bodies
attach(component, parent) == [component EXCEPT !.parent = Some(parent)]

\* normal_load of WheelMotor._apply: normal_force, or the parent's weight
\* shared between the wheels (g_equiv = 9.81)
normal_load_of(motor, body) ==
    IF motor.normal_force # None THEN motor.normal_force[1]
    ELSE Quot(body.mass * 981, 100 * Max(motor.wheel_count, 1))

\* angular_speed += (target_omega - angular_speed) * min(1, dt / response_time)
blend_omega(angular_speed, target_omega, response_time, hz) ==
    IF 1000 >= hz * response_time THEN target_omega
    ELSE angular_speed + Quot((target_omega - angular_speed) * 1000, hz * response_time)

\* traction_ratio of WheelMotor._apply, in thousandths
traction_ratio_of(report) ==
    IF Abs(report.desired_longitudinal_impulse) > 0
    THEN Min(1000, (Abs(report.applied_longitudinal_impulse) * 1000)
                       \div Abs(report.desired_longitudinal_impulse))
    ELSE 0

\* WheelMotor._apply(value, world, dt): returns the parent body and the motor
\* after the call; step_index is world.step_index
wheel_apply(motor, body, value, hz, step_index) ==
    IF motor.parent = None \/ ~body.can_move THEN [body |-> body, motor |-> motor]
    ELSE
    LET normal_load  == normal_load_of(motor, body)
        target_omega == Quot(value * motor.max_wheel_omega, 1000)
        omega1       == blend_omega(motor.angular_speed, target_omega, motor.response_time, hz)
        wheel_speed  == Quot(omega1 * motor.wheel_radius, 1000)
        cap          == (Abs(motor.max_force) * 1000) \div hz
        solved       == solve_wheel_traction(body, wheel_speed, cap, motor.mu_long, normal_load, hz)
        report       == solved.report
        ratio        == traction_ratio_of(report)
        ground_omega == Quot(report.contact_speed_after * 1000, Max(motor.wheel_radius, 1))
        omega2       == Quot(omega1 * (10000 - 4 * ratio) + ground_omega * (4 * ratio), 10000)
    IN [body  |-> solved.body,
        motor |-> [motor EXCEPT !.angular_speed = omega2,
                                !.last_report = Some([report EXCEPT !.step = Some(step_index)])]]

\* Motor.command(value, world, dt): clamp, remember, apply
motor_command(motor, body, value, hz, step_index) ==
    LET clamped == Max(-motor.max_command, Min(motor.max_command, value))
    IN wheel_apply([motor EXCEPT !.last_command = clamped], body, clamped, hz, step_index)

(***************************************************************************)
(* Integration of one body (Simulator._integrate_bodies); gravity is the x *)
(* component of Simulator.gravity in mm/s^2.                               *)
(***************************************************************************)
\* Simulator.__init__ tunables
linear_damping == 995

angular_damping == 995

max_linear_speed == 15000

max_angular_speed == 40000

\* Simulator._sanitize_velocity: clamp the speeds; second component is the
\* warning it flags (None when it flags none)
sanitize_velocity(body) ==
    LET lin      == Abs(body.v) > max_linear_speed
        ang      == Abs(body.w) > max_angular_speed
        v1       == IF lin THEN (IF body.v < 0 THEN -max_linear_speed ELSE max_linear_speed) ELSE body.v
        w1       == IF ang THEN (IF body.w < 0 THEN -max_angular_speed ELSE max_angular_speed) ELSE body.w
    IN [body    |-> [body EXCEPT !.v = v1, !.w = w1],
        warning |-> IF ang THEN Some("clamped angular speed")
                    ELSE IF lin THEN Some("clamped linear speed") ELSE None]

\* DynamicState.advance_pose: translate by v * dt, rotate by w * dt
advance_pose(body, hz) ==
    [body EXCEPT !.x = body.x + Quot(body.v * 1000, hz),
                 !.theta = IF body.w # 0 THEN body.theta + Quot(body.w * 1000, hz)
                           ELSE body.theta]

\* SimObject.integrate(dt): the pending forces change the velocity, the pose
\* advances by it and the pending forces are cleared
object_integrate(body, hz) ==
    IF ~body.can_move THEN [body EXCEPT !.force = 0]
    ELSE LET pushed == IF body.mass > 0
                       THEN [body EXCEPT !.v = body.v + Quot(body.force, body.mass * hz)]
                       ELSE body
         IN [advance_pose(pushed, hz) EXCEPT !.force = 0]

\* the loop body of Simulator._integrate_bodies for one body
integrate_body(body, hz, gravity) ==
    IF ~body.can_move \/ body.mass <= 0
    THEN [body |-> [body EXCEPT !.force = 0], warning |-> None]
    ELSE LET pulled == apply_force(body, gravity * body.mass)
             damped == [pulled EXCEPT !.v = Quot(body.v * linear_damping, 1000),
                                      !.w = Quot(body.w * angular_damping, 1000)]
             clean  == sanitize_velocity(damped)
         IN [body |-> object_integrate(clean.body, hz), warning |-> clean.warning]

(***************************************************************************)
(* The pseudo-random generator (random.Random) and Gaussian noise.  The    *)
(* generator is a small linear congruential generator: what matters is     *)
(* that a draw is a function of the generator state and advances it.       *)
(***************************************************************************)
RngModulus == 251

\* random.Random(seed) for an integer seed
rng_seeded(seed) == (seed * 7 + 3) % RngModulus

\* one step of the generator
rng_next(state) == (state * 33 + 17) % RngModulus

\* NoiseProfile.sample(world): bias 0; std_dev = 0 draws nothing; otherwise
\* world.rng.gauss(0, std_dev), a draw in {-2..2} * std_dev
noise_sample(std_dev, rng) ==
    IF std_dev = 0 THEN [value |-> 0, rng |-> rng]
    ELSE LET nxt == rng_next(rng)
         IN [value |-> ((nxt % 5) - 2) * std_dev, rng |-> nxt]

(***************************************************************************)
(* Sensors (base.py Sensor, sensors.py).                                   *)
(***************************************************************************)
\* Sensor.__init__: update_period = 1.0 / update_rate_hz if update_rate_hz > 0
\* else 0.0; _time_since_update = 0.0; _last_reading = None
Sensor(kind, update_rate_hz, std_dev) ==
    [kind |-> kind, parent |-> None, update_rate_hz |-> update_rate_hz,
     update_period |-> IF update_rate_hz > 0 THEN DInv(update_rate_hz) ELSE DZero,
     time_since_update |-> DZero, last_reading |-> None, std_dev |-> std_dev]

\* presets.py LINE_SENSOR_PRESETS["line_basic"]: 60 Hz, noise std 0.02 (of a
\* signal in thousandths)
LineSensor == Sensor("line", 60, 20)

\* presets.py DISTANCE_SENSOR_PRESETS["range_short"]: 40 Hz, noise std 0.01 m
DistanceSensor == Sensor("distance", 40, 10000)

\* IMUSensor.__init__: 200 Hz, noise std 0.005
IMUSensor == Sensor("imu", 200, 5)

\* EncoderSensor.__init__: 200 Hz, noise std 0.001
EncoderSensor == Sensor("encoder", 200, 1)

SensorTypes == {"distance", "line", "imu", "encoder"}

\* the constructor Simulator._attach_sensor selects for cfg.type
sensor_for_type(type) ==
    IF type = "distance" THEN DistanceSensor
    ELSE IF type = "line" THEN LineSensor
    ELSE IF type = "imu" THEN IMUSensor
    ELSE EncoderSensor

\* Sensor.should_update(dt): the timer accumulates dt in floating point
should_update(sensor, hz) ==
    IF DIsZero(sensor.update_period) THEN [sensor |-> sensor, due |-> TRUE]
    ELSE LET timed(t) ==
                 IF DGeq(t, sensor.update_period)
                 THEN [sensor |-> [sensor EXCEPT !.time_since_update = DZero], due |-> TRUE]
                 ELSE [sensor |-> [sensor EXCEPT !.time_since_update = t], due |-> FALSE]
         IN timed(DAdd(sensor.time_since_update, DInv(hz)))

\* Polygon.contains_point for a box of half-width half centred at x, for a
\* point on the x axis: the crossing test counts px < x_cross, so the left
\* edge is inside and the right edge is outside
contains_point(body, px) == body.x - body.half <= px /\ px < body.x + body.half

\* sensors.py _sample_line_intensity: the field of the first object whose
\* shape contains the point, 0 when there is none
sample_line_intensity(bodies, px) ==
    LET hits == {i \in 1..Len(bodies) :
                    bodies[i].v.line_intensity > 0 /\ contains_point(bodies[i].v, px)}
    IN IF hits = {} THEN 0
       ELSE bodies[CHOOSE i \in hits : \A j \in hits : i <= j].v.line_intensity

\* presets.py range_short: max_range 1.5 m, step 0.01 m
max_range == 1500000

ray_step == 10000

\* the first sample of the ray march, counted in steps from the origin,
\* that lies inside the body: the first multiple of step at or past the
\* body's left edge, if it comes before the right edge; None otherwise
first_sample_inside(body, origin) ==
    LET k == IF body.x - body.half <= origin THEN 0
             ELSE CeilDiv(body.x - body.half - origin, ray_step)
    IN IF contains_point(body, origin + k * ray_step) /\ k * ray_step <= max_range
       THEN Some(k) ELSE None

\* DistanceSensor._ray_march along direction (1, 0): the distance of the
\* first sample point, stepping by step up to max_range, that is inside a
\* body other than the parent; None when there is none
ray_march(bodies, parent, origin) ==
    LET hits == {first_sample_inside(bodies[i].v, origin)[1] :
                    i \in {j \in 1..Len(bodies) :
                              /\ bodies[j].k # parent
                              /\ first_sample_inside(bodies[j].v, origin) # None}}
    IN IF hits = {} THEN None
       ELSE Some(ray_step * (CHOOSE k \in hits : \A j \in hits : k <= j))

\* the value computed by Sensor.read for a due sensor, and the generator
\* after the noise draws (LineSensor.read, DistanceSensor.read,
\* IMUSensor.read, EncoderSensor.read)
read_value(sensor, bodies, rng) ==
    LET parent == DictGet(bodies, sensor.parent[1], Body(0, 0, 0, FALSE, 0, 0))
        n1     == noise_sample(sensor.std_dev, rng)
    IN IF sensor.kind = "line"
       THEN [value |-> Clamp(sample_line_intensity(bodies, parent.x) + n1.value, 0, 1000),
             rng |-> n1.rng]
       ELSE IF sensor.kind = "distance"
       THEN LET hit == ray_march(bodies, sensor.parent[1], parent.x)
                raw == IF hit = None THEN max_range ELSE hit[1]
            IN [value |-> Clamp(raw + n1.value, 0, max_range), rng |-> n1.rng]
       ELSE IF sensor.kind = "imu"
       THEN LET n2 == noise_sample(sensor.std_dev, n1.rng)
                n3 == noise_sample(sensor.std_dev, n2.rng)
            IN [value |-> [lin |-> <<parent.v + n1.value, n2.value>>,
                           ang |-> parent.w + n3.value],
                rng |-> n3.rng]
       ELSE [value |-> parent.w + n1.value, rng |-> n1.rng]

\* Sensor.read(world, dt): None without a parent or when not due; otherwise
\* a SensorReading stamped with world.time, kept as _last_reading
sensor_read(sensor, bodies, rng, hz, time) ==
    IF sensor.parent = None THEN [sensor |-> sensor, reading |-> None, rng |-> rng]
    ELSE LET read(upd, val) ==
                 LET reading == [value |-> val.value, timestamp |-> time]
                 IN [sensor  |-> [upd.sensor EXCEPT !.last_reading = Some(reading)],
                     reading |-> Some(reading), rng |-> val.rng]
             updated(upd) ==
                 IF ~upd.due THEN [sensor |-> upd.sensor, reading |-> None, rng |-> rng]
                 ELSE read(upd, read_value(upd.sensor, bodies, rng))
         IN updated(should_update(sensor, hz))

(***************************************************************************)
(* Scene configuration (core/config.py) and Simulator.load.                *)
(***************************************************************************)
\* BodyConfig: name, pose (x offset), mass, box half-width, can_move,
\* material restitution and line_intensity field
BodyConfig(name, x, mass, half, can_move, line_intensity) ==
    [name |-> name, x |-> x, mass |-> mass, half |-> half, can_move |-> can_move,
     restitution |-> 10, line_intensity |-> line_intensity]

\* JointConfig: parent and child body names, anchors (x offsets); lower_limit
\* = upper_limit = 0, so the rest distance between the anchors is 0
JointConfig(parent, child, anchor_parent, anchor_child) ==
    [parent |-> parent, child |-> child, anchor_parent |-> anchor_parent,
     anchor_child |-> anchor_child]

\* ActuatorConfig with params max_force, mu_long, normal_force
ActuatorConfig(name, body, max_force, mu_long, normal_force) ==
    [name |-> name, body |-> body, max_force |-> max_force, mu_long |-> mu_long,
     normal_force |-> normal_force]

SensorConfig(name, type, body) == [name |-> name, type |-> type, body |-> body]

\* RobotConfig; controller_module "" stands for a missing (falsy) module name
RobotConfig(bodies, joints, actuators, sensors, controller_module) ==
    [bodies |-> bodies, joints |-> joints, actuators |-> actuators,
     sensors |-> sensors, controller_module |-> controller_module, spawn_pose |-> 0]

\* ScenarioRobot; id "" stands for a missing (falsy) id
ScenarioRobot(id, config, spawn_pose) ==
    [id |-> id, config |-> config, spawn_pose |-> spawn_pose]

\* Simulator.__init__: the state of a new Simulator; its generator is
\* random.Random(), seeded from the operating system's entropy; gravity is
\* the x component of (0.0, -9.81)
NewSimulator(entropy) ==
    [hz |-> 120, time |-> DZero, step_index |-> 0,
     bodies |-> <<>>, joints |-> <<>>, sensors |-> <<>>, motors |-> <<>>,
     robot_cfg |-> None,
     controller_instance |-> None, controller_modules |-> <<>>,
     controller_instances |-> <<>>, scenario_path |-> None, rng |-> entropy,
     last_controller_error |-> None, last_controller_errors |-> <<>>,
     last_sensor_readings |-> <<>>, last_sensor_readings_by_robot |-> <<>>,
     last_motor_commands |-> <<>>, last_physics_warning |-> None,
     robot_ids |-> <<>>, robot_spawn |-> <<>>, robot_configs |-> <<>>,
     sensor_owners |-> <<>>, motor_owners |-> <<>>,
     max_step_translation |-> 500000, gravity |-> 0]

\* Simulator._make_body(body_cfg, spawn_pose)
make_body(body_cfg, spawn_pose) ==
    Body(body_cfg.x + spawn_pose, body_cfg.mass, body_cfg.half, body_cfg.can_move,
         body_cfg.restitution, body_cfg.line_intensity)

\* body_map.get(name, name) of _prepare_robot_config: the prefixed name of an
\* own body, any other name unchanged
body_map_get(bodies, prefix, name) ==
    IF \E i \in 1..Len(bodies) : bodies[i].name = name THEN prefix \o name ELSE name

\* a _prepare_robot_config that never prefixes
prepare_unprefixed(robot_id, robot_cfg, spawn_pose, prefix_names) ==
    [robot_cfg EXCEPT
        !.spawn_pose = spawn_pose,
        !.controller_module = IF robot_cfg.controller_module = "" THEN "controller"
                              ELSE robot_cfg.controller_module]

\* Simulator._prepare_robot_config(robot_id, robot_cfg, spawn_pose, prefix_names)
prepare_robot_config(robot_id, robot_cfg, spawn_pose, prefix_names) ==
    LET cfg == [robot_cfg EXCEPT
                   !.spawn_pose = spawn_pose,
                   !.controller_module = IF robot_cfg.controller_module = ""
                                         THEN "controller"
                                         ELSE robot_cfg.controller_module]
        prefix == robot_id \o "/"
    IN IF ~prefix_names THEN cfg
       ELSE [cfg EXCEPT
               !.bodies = [i \in 1..Len(cfg.bodies) |->
                              [cfg.bodies[i] EXCEPT !.name = prefix \o cfg.bodies[i].name]],
               !.joints = [i \in 1..Len(cfg.joints) |->
                              [cfg.joints[i] EXCEPT
                                  !.parent = body_map_get(cfg.bodies, prefix, cfg.joints[i].parent),
                                  !.child = body_map_get(cfg.bodies, prefix, cfg.joints[i].child)]],
               !.actuators = [i \in 1..Len(cfg.actuators) |->
                              [cfg.actuators[i] EXCEPT
                                  !.body = body_map_get(cfg.bodies, prefix, cfg.actuators[i].body),
                                  !.name = prefix \o cfg.actuators[i].name]],
               !.sensors = [i \in 1..Len(cfg.sensors) |->
                              [cfg.sensors[i] EXCEPT
                                  !.body = body_map_get(cfg.bodies, prefix, cfg.sensors[i].body),
                                  !.name = prefix \o cfg.sensors[i].name]]]

\* an error record kept under the first robot's id whatever robot it is for
record_under_primary(s, robot_id, message) ==
    LET errors == IF message # None
                  THEN DictPut(s.last_controller_errors, s.robot_ids[1], message[1])
                  ELSE DictPop(s.last_controller_errors, s.robot_ids[1])
    IN [s EXCEPT !.last_controller_errors = errors,
                 !.last_controller_error = IF Len(errors) > 0 THEN Some(errors[1].v) ELSE None]

\* a _record_controller_error whose scalar is the message just recorded
record_controller_error_latest(s, robot_id, message) ==
    LET errors == IF message # None
                  THEN DictPut(s.last_controller_errors, robot_id, message[1])
                  ELSE DictPop(s.last_controller_errors, robot_id)
    IN [s EXCEPT !.last_controller_errors = errors,
                 !.last_controller_error = IF message # None THEN message
                                           ELSE IF Len(errors) > 0 THEN Some(errors[1].v)
                                           ELSE None]

\* Simulator._record_controller_error(robot_id, message)
record_controller_error(s, robot_id, message) ==
    LET errors == IF message # None
                  THEN DictPut(s.last_controller_errors, robot_id, message[1])
                  ELSE DictPop(s.last_controller_errors, robot_id)
    IN [s EXCEPT !.last_controller_errors = errors,
                 !.last_controller_error = IF Len(errors) > 0 THEN Some(errors[1].v) ELSE None]

\* what the controller artifact of a module can be when it is loaded:
\* a controllers/<module>.controller.json that compiles ("generated"), a
\* legacy <module>.py ("legacy"), neither ("missing"), a definition file
\* json.loads rejects ("malformed"), a module whose import raises, whose
\* Controller constructor raises, or that defines no Controller class
ArtifactStates ==
    {"generated", "legacy", "missing", "malformed", "import_raises", "ctor_raises", "no_class"}

\* robot_id == (self.robot_ids[0] if self.robot_ids else "robot")
is_primary(s, robot_id) ==
    robot_id = (IF Len(s.robot_ids) > 0 THEN s.robot_ids[1] ELSE "robot")

\* the branches of _load_controller_for_robot that drop the robot's controller
drop_controller(s, robot_id) ==
    [s EXCEPT !.controller_modules = DictPop(s.controller_modules, robot_id),
              !.controller_instances = DictPop(s.controller_instances, robot_id),
              !.controller_instance = IF is_primary(s, robot_id) THEN None
                                      ELSE s.controller_instance]

\* the except branch of _load_controller_for_robot; modules_now is
\* controller_modules at the point the exception was raised
controller_load_failed(s, modules_now, robot_id, keep_previous) ==
    LET s1 == record_controller_error([s EXCEPT !.controller_modules = modules_now],
                                      robot_id, Some("load traceback"))
        prev_module   == DictGet(s.controller_modules, robot_id, None)
        prev_instance == DictGet(s.controller_instances, robot_id, None)
    IN IF keep_previous
       THEN [s1 EXCEPT
               !.controller_modules = IF prev_module # None
                                      THEN DictPut(s1.controller_modules, robot_id, prev_module)
                                      ELSE s1.controller_modules,
               !.controller_instances = IF prev_instance # None
                                        THEN DictPut(s1.controller_instances, robot_id, prev_instance)
                                        ELSE s1.controller_instances,
               !.controller_instance = IF is_primary(s, robot_id) THEN prev_instance
                                       ELSE s1.controller_instance]
       ELSE drop_controller(s1, robot_id)

\* Simulator._load_controller_for_robot(robot_id, module_name, scenario_path,
\* keep_previous) with the artifact in the given state; L is the simulator,
\* the exception that escaped (None when none did) and the number of
\* controller objects constructed so far
load_controller_for_robot(L, robot_id, module_name, artifact, keep_previous) ==
    LET s == L.sim
    IN IF artifact = "malformed"
       THEN [L EXCEPT !.raised = Some("JSONDecodeError")]
       ELSE IF artifact = "missing"
       THEN [L EXCEPT !.sim = record_controller_error(
                                 IF keep_previous THEN s ELSE drop_controller(s, robot_id),
                                 robot_id, Some("Controller file not found"))]
       ELSE IF artifact = "import_raises"
       THEN [L EXCEPT !.sim = controller_load_failed(s, s.controller_modules, robot_id,
                                                     keep_previous)]
       ELSE LET modules == DictPut(s.controller_modules, robot_id, Some(module_name))
            IN IF artifact = "ctor_raises"
               THEN [L EXCEPT !.sim = controller_load_failed(s, modules, robot_id, keep_previous)]
               ELSE LET instance == IF artifact = "no_class" THEN None
                                    ELSE Some([oid |-> L.heap + 1, module |-> module_name,
                                               robot_id |-> IF artifact = "generated"
                                                            THEN s.robot_ids[1]
                                                            ELSE robot_id])
                        s1 == [s EXCEPT
                                  !.controller_modules = modules,
                                  !.controller_instances =
                                      DictPut(s.controller_instances, robot_id, instance),
                                  !.controller_instance =
                                      IF is_primary(s, robot_id) THEN instance
                                      ELSE s.controller_instance]
                    IN [L EXCEPT !.sim = record_controller_error(s1, robot_id, None),
                                 !.heap = IF instance = None THEN L.heap ELSE L.heap + 1]

\* Simulator._attach_actuator(cfg, robot_id)
attach_actuator(L, cfg, robot_id) ==
    LET s == L.sim
    IN IF ~DictHas(s.bodies, cfg.body)
       THEN [L EXCEPT !.raised = Some("ValueError: actuator parent body not found")]
       ELSE LET wheel_count == 1 + Cardinality({i \in 1..Len(s.motors) :
                                                   s.motors[i].v.parent = Some(cfg.body)})
                motor == attach(WheelMotor(cfg.max_force, cfg.mu_long, cfg.normal_force,
                                           wheel_count, 30, 50, 40000), cfg.body)
            IN [L EXCEPT !.sim = [s EXCEPT
                   !.motors = DictPut(s.motors, cfg.name, motor),
                   !.motor_owners = DictPut(s.motor_owners, cfg.name, robot_id)]]

\* Simulator._attach_sensor(cfg, robot_id)
attach_sensor(L, cfg, robot_id) ==
    LET s == L.sim
    IN IF ~DictHas(s.bodies, cfg.body)
       THEN [L EXCEPT !.raised = Some("ValueError: sensor parent body not found")]
       ELSE IF cfg.type \notin SensorTypes
       THEN [L EXCEPT !.raised = Some("ValueError: unsupported sensor type")]
       ELSE [L EXCEPT !.sim = [s EXCEPT
                !.sensors = DictPut(s.sensors, cfg.name,
                                    attach(sensor_for_type(cfg.type), cfg.body)),
                !.sensor_owners = DictPut(s.sensor_owners, cfg.name, robot_id)]]

\* the loops of Simulator.load over one robot's actuators and sensors; an
\* exception ends the load
RECURSIVE attach_actuators(_, _, _, _)
attach_actuators(L, cfgs, i, robot_id) ==
    IF i > Len(cfgs) \/ L.raised # None THEN L
    ELSE attach_actuators(attach_actuator(L, cfgs[i], robot_id), cfgs, i + 1, robot_id)

RECURSIVE attach_sensors(_, _, _, _)
attach_sensors(L, cfgs, i, robot_id) ==
    IF i > Len(cfgs) \/ L.raised # None THEN L
    ELSE attach_sensors(attach_sensor(L, cfgs[i], robot_id), cfgs, i + 1, robot_id)

RECURSIVE put_bodies(_, _, _, _)
put_bodies(bodies, cfgs, i, spawn_pose) ==
    IF i > Len(cfgs) THEN bodies
    ELSE put_bodies(DictPut(bodies, cfgs[i].name, make_body(cfgs[i], spawn_pose)),
                    cfgs, i + 1, spawn_pose)

\* JointRuntime(cfg=joint_cfg)
JointRuntime(cfg) == [cfg |-> cfg, lambda_accum |-> 0]

\* robot.id or f"robot_{idx+1}" (idx counted from 1 here)
robot_id_of(robot, idx) == IF robot.id # "" THEN robot.id ELSE "robot_" \o ToString(idx)

\* the body of the robot loop of Simulator.load for robot number idx;
\* artifacts gives the state of each controller module's artifact
load_robot(L, robot, idx, multi, artifacts) ==
    LET s        == L.sim
        robot_id == robot_id_of(robot, idx)
        cfg      == prepare_robot_config(robot_id, robot.config, robot.spawn_pose, multi)
        s1 == [s EXCEPT
                 !.robot_ids = Append(s.robot_ids, robot_id),
                 !.robot_spawn = DictPut(s.robot_spawn, robot_id, cfg.spawn_pose),
                 !.robot_configs = DictPut(s.robot_configs, robot_id, cfg),
                 !.robot_cfg = IF idx = 1 THEN Some(cfg) ELSE s.robot_cfg,
                 !.controller_instance = IF idx = 1 THEN None ELSE s.controller_instance,
                 !.bodies = put_bodies(s.bodies, cfg.bodies, 1, cfg.spawn_pose),
                 !.joints = s.joints \o [i \in 1..Len(cfg.joints) |-> JointRuntime(cfg.joints[i])]]
        L1 == attach_actuators([L EXCEPT !.sim = s1], cfg.actuators, 1, robot_id)
        L2 == attach_sensors(L1, cfg.sensors, 1, robot_id)
    IN IF L2.raised # None THEN L2
       ELSE load_controller_for_robot(L2, robot_id, cfg.controller_module,
                                      artifacts[cfg.controller_module], FALSE)

RECURSIVE load_robots(_, _, _, _, _)
load_robots(L, robots, idx, multi, artifacts) ==
    IF idx > Len(robots) \/ L.raised # None THEN L
    ELSE load_robots(load_robot(L, robots[idx], idx, multi, artifacts),
                     robots, idx + 1, multi, artifacts)

\* the spawn-overlap check that ends Simulator.load: the last pair of robots
\* spawned closer than 0.05 m leaves a warning
spawn_overlap_warning(s) ==
    IF \E i, j \in 1..Len(s.robot_spawn) :
           i < j /\ Abs(s.robot_spawn[i].v - s.robot_spawn[j].v) < 50000
    THEN Some("spawn overlap")
    ELSE s.last_physics_warning

\* terrain objects become bodies that cannot move, keyed by the object name
RECURSIVE put_terrain(_, _, _)
put_terrain(bodies, terrain, i) ==
    IF i > Len(terrain) THEN bodies
    ELSE put_terrain(DictPut(bodies, terrain[i].name,
                             [make_body(terrain[i], 0) EXCEPT !.can_move = FALSE]),
                     terrain, i + 1)

\* a load that leaves the generator as it was constructed
load_rng_unseeded(seed, entropy) == entropy

\* random.Random(world_cfg.seed): seeded by the seed, or from the operating
\* system's entropy when the seed is None
load_rng(seed, entropy) == IF seed # None THEN rng_seeded(seed[1]) ELSE entropy

\* Simulator.load(scenario_path, world_cfg, robots=...), top_down left at its
\* default True: returns the simulator, the exception that escaped (None when
\* load returned) and the controller object count
load(s, scene, artifacts, entropy, objects) ==
    LET multi == Len(scene.robots) > 1
        s0 == [NewSimulator(0) EXCEPT
                 !.scenario_path = Some(scene.name),
                 !.hz = scene.hz,
                 !.rng = load_rng(scene.seed, entropy),
                 !.robot_cfg = s.robot_cfg,
                 !.controller_instance = s.controller_instance,
                 !.bodies = put_terrain(<<>>, scene.terrain, 1),
                 !.gravity = 0,
                 !.max_step_translation = IF multi THEN 250000 ELSE 500000]
        L == load_robots([sim |-> s0, raised |-> None, heap |-> objects],
                         scene.robots, 1, multi, artifacts)
    IN IF L.raised # None THEN L
       ELSE [L EXCEPT !.sim.last_physics_warning = spawn_overlap_warning(L.sim)]

(***************************************************************************)
(* Simulator.step.  The phases thread a record T: the simulator, the       *)
(* readings sampled this tick, the poses before the tick, the controller   *)
(* calls made, the warnings flagged and the phases run so far.             *)
(***************************************************************************)
\* the last warning a loop flagged, or the one standing before the loop
last_warning(warnings, standing) ==
    LET flagged == {i \in 1..Len(warnings) : warnings[i] # None}
    IN IF flagged = {} THEN standing
       ELSE warnings[CHOOSE i \in flagged : \A j \in flagged : j <= i]

\* the messages a loop passed to _flag_warning, in the order of the calls
flagged_of(warnings) ==
    LET calls == SelectSeq(warnings, LAMBDA w : w # None)
    IN [i \in 1..Len(calls) |-> calls[i][1]]

\* the loop of Simulator._update_sensors from sensor number i on
RECURSIVE read_sensors(_, _, _, _)
read_sensors(s, readings, per_robot, i) ==
    IF i > Len(s.sensors) THEN [sim |-> s, readings |-> readings, per_robot |-> per_robot]
    ELSE LET name  == s.sensors[i].k
             owner == DictGet(s.sensor_owners, name, "")
             kept(r) ==
                 read_sensors([s EXCEPT !.sensors[i].v = r.sensor, !.rng = r.rng],
                              IF r.reading = None THEN readings
                              ELSE DictPut(readings, name, r.reading[1].value),
                              IF r.reading = None \/ owner = "" THEN per_robot
                              ELSE DictPut(per_robot, owner,
                                           DictPut(DictGet(per_robot, owner, <<>>), name,
                                                   r.reading[1].value)),
                              i + 1)
         IN kept(sensor_read(s.sensors[i].v, s.bodies, s.rng, s.hz, s.time))

\* Simulator._update_sensors(dt), and step's last_sensor_readings = readings
update_sensors(T) ==
    LET s == T.sim
        sensed(r) ==
            [T EXCEPT !.sim = [r.sim EXCEPT !.last_sensor_readings_by_robot = r.per_robot,
                                            !.last_sensor_readings = r.readings],
                      !.readings = r.readings,
                      !.phases = Append(T.phases, "sensors")]
    IN sensed(read_sensors(s, <<>>, [i \in 1..Len(s.robot_ids) |-> [k |-> s.robot_ids[i], v |-> <<>>]], 1))

\* what a controller's step(sensors, dt) may do on a tick: command every
\* motor of its robot with a value, raise, or return without doing anything
Drive(value) == [kind |-> "drive", value |-> value]

Raise == [kind |-> "raise", value |-> 0]

Pass == [kind |-> "pass", value |-> 0]

\* a controller commanding the motors of its robot, from motor number i on
RECURSIVE command_motors(_, _, _, _)
command_motors(s, robot_id, value, i) ==
    IF i > Len(s.motors) THEN s
    ELSE IF DictGet(s.motor_owners, s.motors[i].k, "") # robot_id
    THEN command_motors(s, robot_id, value, i + 1)
    ELSE LET motor  == s.motors[i].v
             parent == motor.parent[1]
             r      == motor_command(motor, DictGet(s.bodies, parent, Body(0, 0, 0, FALSE, 0, 0)),
                                     value, s.hz, s.step_index)
         IN command_motors([s EXCEPT !.motors[i].v = r.motor,
                                     !.bodies = DictPut(s.bodies, parent, r.body)],
                           robot_id, value, i + 1)

\* ctrl of _tick_controller: controller_instances.get(rid) if
\* controller_instances else controller_instance
controller_of(s, robot_id) ==
    IF Len(s.controller_instances) > 0 THEN DictGet(s.controller_instances, robot_id, None)
    ELSE s.controller_instance

\* the loop of Simulator._tick_controller from robot number i on; behaviour
\* gives what each robot's controller does when it is called this tick
RECURSIVE tick_robots(_, _, _)
tick_robots(T, behaviour, i) ==
    LET s == T.sim
    IN IF i > Len(s.robot_ids) THEN T
       ELSE LET rid  == s.robot_ids[i]
                ctrl == controller_of(s, rid)
            IN IF ctrl = None \/ DictHas(s.last_controller_errors, rid)
               THEN tick_robots(T, behaviour, i + 1)
               ELSE LET seen == DictGet(s.last_sensor_readings_by_robot, rid, T.readings)
                        call == [robot_id |-> rid, oid |-> ctrl[1].oid, readings |-> seen,
                                 did |-> behaviour[rid]]
                        s1   == IF behaviour[rid].kind = "raise"
                                THEN record_controller_error(s, rid, Some("step traceback"))
                                ELSE IF behaviour[rid].kind = "drive"
                                THEN command_motors(s, rid, behaviour[rid].value, 1)
                                ELSE s
                    IN tick_robots([T EXCEPT !.sim = s1, !.calls = Append(T.calls, call)],
                                   behaviour, i + 1)

\* a controller loop whose try encloses the whole loop: the first exception
\* is recorded and ends the loop
RECURSIVE tick_robots_unguarded(_, _, _)
tick_robots_unguarded(T, behaviour, i) ==
    LET s == T.sim
    IN IF i > Len(s.robot_ids) THEN T
       ELSE LET rid  == s.robot_ids[i]
                ctrl == controller_of(s, rid)
            IN IF ctrl = None \/ DictHas(s.last_controller_errors, rid)
               THEN tick_robots_unguarded(T, behaviour, i + 1)
               ELSE LET seen == DictGet(s.last_sensor_readings_by_robot, rid, T.readings)
                        call == [robot_id |-> rid, oid |-> ctrl[1].oid, readings |-> seen,
                                 did |-> behaviour[rid]]
                        T1   == [T EXCEPT !.calls = Append(T.calls, call)]
                    IN IF behaviour[rid].kind = "raise"
                       THEN [T1 EXCEPT !.sim = record_controller_error(
                                                   s, rid, Some("step traceback"))]
                       ELSE tick_robots_unguarded(
                                [T1 EXCEPT !.sim = IF behaviour[rid].kind = "drive"
                                                   THEN command_motors(s, rid, behaviour[rid].value, 1)
                                                   ELSE s],
                                behaviour, i + 1)

tick_controller_unguarded(T, behaviour) ==
    [tick_robots_unguarded(T, behaviour, 1) EXCEPT !.phases = Append(T.phases, "controller")]

\* a controller loop that does not look at the recorded errors
RECURSIVE tick_robots_unskipped(_, _, _)
tick_robots_unskipped(T, behaviour, i) ==
    LET s == T.sim
    IN IF i > Len(s.robot_ids) THEN T
       ELSE LET rid  == s.robot_ids[i]
                ctrl == controller_of(s, rid)
                does == IF rid \in DOMAIN behaviour THEN behaviour[rid] ELSE Pass
            IN IF ctrl = None
               THEN tick_robots_unskipped(T, behaviour, i + 1)
               ELSE LET seen == DictGet(s.last_sensor_readings_by_robot, rid, T.readings)
                        call == [robot_id |-> rid, oid |-> ctrl[1].oid, readings |-> seen,
                                 did |-> does]
                        s1   == IF does.kind = "raise"
                                THEN record_controller_error(s, rid, Some("step traceback"))
                                ELSE IF does.kind = "drive"
                                THEN command_motors(s, rid, does.value, 1)
                                ELSE s
                    IN tick_robots_unskipped(
                           [T EXCEPT !.sim = s1, !.calls = Append(T.calls, call)],
                           behaviour, i + 1)

tick_controller_unskipped(T, behaviour) ==
    [tick_robots_unskipped(T, behaviour, 1) EXCEPT !.phases = Append(T.phases, "controller")]

\* Simulator._tick_controller(sensor_readings, dt)
tick_controller(T, behaviour) ==
    [tick_robots(T, behaviour, 1) EXCEPT !.phases = Append(T.phases, "controller")]

\* Simulator._integrate_bodies(dt)
integrate_bodies(T) ==
    LET s   == T.sim
        res == [i \in 1..Len(s.bodies) |-> integrate_body(s.bodies[i].v, s.hz, s.gravity)]
    IN [T EXCEPT
          !.sim = [s EXCEPT
                     !.bodies = [i \in 1..Len(s.bodies) |-> [k |-> s.bodies[i].k, v |-> res[i].body]],
                     !.last_physics_warning =
                         last_warning([i \in 1..Len(res) |-> res[i].warning],
                                      s.last_physics_warning)],
          !.flagged = T.flagged \o flagged_of([i \in 1..Len(res) |-> res[i].warning]),
          !.phases = Append(T.phases, "integrate")]

\* Simulator.__init__ tunables: contact_slop (m), max_penetration_correction
\* (m), contact_correction_percent (hundredths)
contact_slop == 2000

max_penetration_correction == 50000

contact_correction_percent == 25

\* 1 / (inv_mass_a + inv_mass_b) in grams, a body that cannot move having
\* inverse mass 0; 0 when neither can move
reduced_mass(a, b) ==
    IF a.can_move /\ b.can_move
    THEN (Max(a.mass, 1) * Max(b.mass, 1)) \div (Max(a.mass, 1) + Max(b.mass, 1))
    ELSE IF a.can_move THEN Max(a.mass, 1)
    ELSE IF b.can_move THEN Max(b.mass, 1)
    ELSE 0

\* a correction applied whether or not the body can move
shifted_unchecked(body, amount, sgn) ==
    [body EXCEPT !.x = body.x + sgn * Quot(amount * 1000, Max(body.mass, 1))]

\* x + n * correction * inv_mass for a unit direction n = dx / (|dx| + 1e-6)
\* of sign sgn, |n * correction| given in micrometre-kilograms
shifted(body, amount, sgn) ==
    IF ~body.can_move THEN body
    ELSE [body EXCEPT !.x = body.x + sgn * Quot(amount * 1000, Max(body.mass, 1))]

\* dlambda of Simulator._solve_joints for joint number i, 0 where the loop
\* continues before it adds to lambda_accum (compliance 0, so alpha = 1e9 and
\* dlambda = -error / dt^2 up to one part in 1e4; lambda is carried in
\* thousandths)
joint_dlambda(s, i) ==
    LET jr == s.joints[i]
    IN IF ~DictHas(s.bodies, jr.cfg.parent) \/ ~DictHas(s.bodies, jr.cfg.child) THEN 0
       ELSE
       LET parent == DictGet(s.bodies, jr.cfg.parent, <<>>)
           child  == DictGet(s.bodies, jr.cfg.child, <<>>)
           error  == Abs((child.x + jr.cfg.anchor_child) - (parent.x + jr.cfg.anchor_parent))
       IN IF (~parent.can_move /\ ~child.can_move) \/ error < 10 THEN 0
          ELSE -Quot(Quot(error * s.hz, 100) * s.hz, 10)

\* a joint solve that keeps only the tick's own dlambda
solve_joint_fresh(s, i) ==
    LET jr == s.joints[i]
    IN IF ~DictHas(s.bodies, jr.cfg.parent) \/ ~DictHas(s.bodies, jr.cfg.child) THEN s
       ELSE
       LET parent == DictGet(s.bodies, jr.cfg.parent, <<>>)
           child  == DictGet(s.bodies, jr.cfg.child, <<>>)
           dx     == (child.x + jr.cfg.anchor_child) - (parent.x + jr.cfg.anchor_parent)
           error  == Abs(dx)
           dlambda    == joint_dlambda(s, i)
           correction == Clamp(dlambda, -(max_penetration_correction \div 1000),
                               max_penetration_correction \div 1000)
           amount     == LET c == Abs(correction) * 1000 IN c - (c \div (error + 1))
           sgn        == IF dx < 0 THEN -1 ELSE 1
       IN IF (~parent.can_move /\ ~child.can_move) \/ error < 10 THEN s
          ELSE [s EXCEPT
                  !.joints[i].lambda_accum = dlambda,
                  !.bodies = DictPut(DictPut(s.bodies, jr.cfg.parent,
                                             shifted(parent, amount, sgn)),
                                     jr.cfg.child,
                                     IF jr.cfg.child = jr.cfg.parent
                                     THEN shifted(shifted(parent, amount, sgn), amount, -sgn)
                                     ELSE shifted(child, amount, -sgn))]

\* the loop body of Simulator._solve_joints for joint number i
solve_joint(s, i) ==
    LET jr == s.joints[i]
    IN IF ~DictHas(s.bodies, jr.cfg.parent) \/ ~DictHas(s.bodies, jr.cfg.child) THEN s
       ELSE
       LET parent == DictGet(s.bodies, jr.cfg.parent, <<>>)
           child  == DictGet(s.bodies, jr.cfg.child, <<>>)
           dx     == (child.x + jr.cfg.anchor_child) - (parent.x + jr.cfg.anchor_parent)
           error  == Abs(dx)
           dlambda    == joint_dlambda(s, i)
           correction == Clamp(dlambda, -(max_penetration_correction \div 1000),
                               max_penetration_correction \div 1000)
           amount     == LET c == Abs(correction) * 1000 IN c - (c \div (error + 1))
           sgn        == IF dx < 0 THEN -1 ELSE 1
       IN IF (~parent.can_move /\ ~child.can_move) \/ error < 10 THEN s
          ELSE [s EXCEPT
                  !.joints[i].lambda_accum = jr.lambda_accum + dlambda,
                  !.bodies = DictPut(DictPut(s.bodies, jr.cfg.parent,
                                             shifted(parent, amount, sgn)),
                                     jr.cfg.child,
                                     IF jr.cfg.child = jr.cfg.parent
                                     THEN shifted(shifted(parent, amount, sgn), amount, -sgn)
                                     ELSE shifted(child, amount, -sgn))]

RECURSIVE solve_joints_from(_, _)
solve_joints_from(s, i) ==
    IF i > Len(s.joints) THEN s ELSE solve_joints_from(solve_joint(s, i), i + 1)

\* Simulator._solve_joints(dt)
solve_joints(T) ==
    [T EXCEPT !.sim = solve_joints_from(T.sim, 1), !.phases = Append(T.phases, "joints")]

\* geometry.py collision_manifold for two boxes on the x axis (their common
\* extent across the axis exceeds any overlap along it): the penetration,
\* and the normal from a to b; None when they do not overlap
collision_manifold(a, b) ==
    LET overlap == Min(a.x + a.half, b.x + b.half) - Max(a.x - a.half, b.x - b.half)
    IN IF overlap <= 0 THEN None
       ELSE Some([penetration |-> overlap, normal |-> IF b.x > a.x THEN 1 ELSE -1])

\* the loop body of Simulator._solve_contacts for bodies number i < j (the
\* tangential velocity is 0 on the axis, so friction adds nothing)
solve_contact(T, i, j) ==
    LET s == T.sim
        a == s.bodies[i].v
        b == s.bodies[j].v
        manifold == collision_manifold(a, b)
        red == reduced_mass(a, b)
    IN IF (~a.can_move /\ ~b.can_move) \/ manifold = None \/ red = 0 THEN T
       ELSE
       LET normal == manifold[1].normal
           mag == Min((Quot(Max(manifold[1].penetration - contact_slop, 0)
                              * contact_correction_percent, 100) * red) \div 1000,
                      max_penetration_correction)
           a1  == shifted(a, mag, -normal)
           b1  == shifted(b, mag, normal)
           van == (a1.v - b1.v) * normal
           rest == Clamp(Max(a.restitution, b.restitution), 0, 100)
           jn  == Quot(-(100 + rest) * van * red, 100)
           a2  == IF a1.can_move THEN [a1 EXCEPT !.v = a1.v - Quot(jn * normal, Max(a1.mass, 1))] ELSE a1
           b2  == IF b1.can_move THEN [b1 EXCEPT !.v = b1.v + Quot(jn * normal, Max(b1.mass, 1))] ELSE b1
           a3  == IF a2.can_move THEN sanitize_velocity(a2) ELSE [body |-> a2, warning |-> None]
           b3  == IF b2.can_move THEN sanitize_velocity(b2) ELSE [body |-> b2, warning |-> None]
       IN IF van > 0
          THEN [T EXCEPT !.sim = [s EXCEPT !.bodies[i].v = a1, !.bodies[j].v = b1]]
          ELSE [T EXCEPT
                  !.sim = [s EXCEPT !.bodies[i].v = a3.body, !.bodies[j].v = b3.body,
                                    !.last_physics_warning =
                                        last_warning(<<a3.warning, b3.warning>>,
                                                     s.last_physics_warning)],
                  !.flagged = T.flagged \o flagged_of(<<a3.warning, b3.warning>>)]

RECURSIVE solve_contacts_from(_, _, _)
solve_contacts_from(T, i, j) ==
    IF i >= Len(T.sim.bodies) THEN T
    ELSE IF j > Len(T.sim.bodies) THEN solve_contacts_from(T, i + 1, i + 2)
    ELSE solve_contacts_from(solve_contact(T, i, j), i, j + 1)

\* Simulator._solve_contacts(dt)
solve_contacts(T) ==
    [solve_contacts_from(T, 1, 2) EXCEPT !.phases = Append(T.phases, "contacts")]

\* a clamp that shortens the move and flags nothing
clamp_step_silent(body, prev, limit) ==
    IF ~body.can_move \/ Abs(body.x - prev) <= limit THEN [body |-> body, warning |-> None]
    ELSE [body |-> [body EXCEPT !.x = IF body.x < prev THEN prev - limit ELSE prev + limit],
          warning |-> None]

\* the loop body of Simulator._check_step_sanity for one body
clamp_step(body, prev, limit) ==
    IF ~body.can_move \/ Abs(body.x - prev) <= limit THEN [body |-> body, warning |-> None]
    ELSE [body |-> [body EXCEPT !.x = IF body.x < prev THEN prev - limit ELSE prev + limit],
          warning |-> Some("large step clamped")]

\* Simulator._check_step_sanity(prev_poses, dt)
check_step_sanity(T) ==
    LET s   == T.sim
        res == [i \in 1..Len(s.bodies) |->
                   IF DictHas(T.prev_poses, s.bodies[i].k)
                   THEN clamp_step(s.bodies[i].v, DictGet(T.prev_poses, s.bodies[i].k, 0),
                                   s.max_step_translation)
                   ELSE [body |-> s.bodies[i].v, warning |-> None]]
    IN IF s.max_step_translation <= 0 THEN [T EXCEPT !.phases = Append(T.phases, "sanity")]
       ELSE [T EXCEPT
               !.sim = [s EXCEPT
                          !.bodies = [i \in 1..Len(s.bodies) |->
                                         [k |-> s.bodies[i].k, v |-> res[i].body]],
                          !.last_physics_warning =
                              last_warning([i \in 1..Len(res) |-> res[i].warning],
                                           s.last_physics_warning)],
               !.flagged = T.flagged \o flagged_of([i \in 1..Len(res) |-> res[i].warning]),
               !.phases = Append(T.phases, "sanity")]

\* the end of Simulator.step: last_motor_commands, time += dt, step_index += 1
finish_step(T) ==
    LET s == T.sim
    IN [T EXCEPT
          !.sim = [s EXCEPT
                     !.last_motor_commands =
                         [i \in 1..Len(s.motors) |->
                             [k |-> s.motors[i].k, v |-> s.motors[i].v.last_command]],
                     !.time = DAdd(s.time, DInv(s.hz)),
                     !.step_index = s.step_index + 1],
          !.phases = Append(T.phases, "advance")]

\* a start of step that leaves the standing warning in place
begin_step_keeping(s) ==
    [sim        |-> s,
     prev_poses |-> [i \in 1..Len(s.bodies) |-> [k |-> s.bodies[i].k, v |-> s.bodies[i].v.x]],
     readings   |-> <<>>,
     calls      |-> <<>>,
     flagged    |-> <<>>,
     phases     |-> <<>>]

\* the start of Simulator.step: no warning standing, poses remembered
begin_step(s) ==
    [sim        |-> [s EXCEPT !.last_physics_warning = None],
     prev_poses |-> [i \in 1..Len(s.bodies) |-> [k |-> s.bodies[i].k, v |-> s.bodies[i].v.x]],
     readings   |-> <<>>,
     calls      |-> <<>>,
     flagged    |-> <<>>,
     phases     |-> <<>>]

\* a tick that integrates the bodies before it calls the controllers
step_integrate_first(s, behaviour) ==
    finish_step(
      check_step_sanity(
        solve_contacts(
          solve_joints(
            tick_controller(
              integrate_bodies(
                update_sensors(begin_step(s))), behaviour)))))

\* Simulator.step(): the simulator after the tick, with the controller calls
\* made and the phases run
step(s, behaviour) ==
    finish_step(
      check_step_sanity(
        solve_contacts(
          solve_joints(
            integrate_bodies(
              tick_controller(
                update_sensors(begin_step(s)), behaviour))))))

\* Simulator.clear_controller_error(robot_id); robot_id None clears all
clear_controller_error(s, robot_id) ==
    LET errors == IF robot_id = None THEN <<>>
                  ELSE DictPop(s.last_controller_errors, robot_id[1])
    IN [s EXCEPT !.last_controller_errors = errors,
                 !.last_controller_error = IF Len(errors) > 0 THEN Some(errors[1].v) ELSE None]

\* a reload_controller that reloads the controllers of all robots, whichever
\* robot it is given
RECURSIVE reload_each(_, _, _, _)
reload_each(L, i, artifact, keep_previous) ==
    IF i > Len(L.sim.robot_ids) THEN L
    ELSE reload_each(
             load_controller_for_robot(
                 L, L.sim.robot_ids[i],
                 DictGet(L.sim.robot_configs, L.sim.robot_ids[i], <<>>).controller_module,
                 artifact, keep_previous),
             i + 1, artifact, keep_previous)

reload_controller_all(L, robot_id, artifact, keep_previous) ==
    IF L.sim.scenario_path = None \/ ~DictHas(L.sim.robot_configs, robot_id) THEN L
    ELSE reload_each(L, 1, artifact, keep_previous)

\* Simulator.reload_controller(robot_id, keep_previous=...) for one robot,
\* with the robot's controller artifact in the given state
reload_controller(L, robot_id, artifact, keep_previous) ==
    IF L.sim.scenario_path = None \/ ~DictHas(L.sim.robot_configs, robot_id) THEN L
    ELSE load_controller_for_robot(
             L, robot_id, DictGet(L.sim.robot_configs, robot_id, <<>>).controller_module,
             artifact, keep_previous)

(***************************************************************************)
(* Snapshots, commands from outside a tick, repositioning.                 *)
(***************************************************************************)
\* Simulator.snapshot() (no controller defines get_state)
snapshot(s) ==
    [time   |-> s.time,
     step   |-> s.step_index,
     bodies |-> [i \in 1..Len(s.bodies) |->
                    [k |-> s.bodies[i].k,
                     v |-> [pose    |-> [x |-> s.bodies[i].v.x, theta |-> s.bodies[i].v.theta],
                            lin_vel |-> s.bodies[i].v.v,
                            ang_vel |-> s.bodies[i].v.w]]],
     controller_state |-> None]

\* an apply_snapshot that puts back the poses and leaves the velocities
apply_snapshot_poses(s, state) ==
    [s EXCEPT
       !.time = state.time,
       !.step_index = state.step,
       !.bodies = [i \in 1..Len(s.bodies) |->
                     IF DictHas(state.bodies, s.bodies[i].k)
                     THEN LET saved == DictGet(state.bodies, s.bodies[i].k, <<>>)
                          IN [k |-> s.bodies[i].k,
                              v |-> [s.bodies[i].v EXCEPT !.x = saved.pose.x,
                                                          !.theta = saved.pose.theta]]
                     ELSE s.bodies[i]]]

\* Simulator.apply_snapshot(state): bodies the snapshot does not name, and
\* names the simulator does not have, are left alone
apply_snapshot(s, state) ==
    [s EXCEPT
       !.time = state.time,
       !.step_index = state.step,
       !.bodies = [i \in 1..Len(s.bodies) |->
                     IF DictHas(state.bodies, s.bodies[i].k)
                     THEN LET saved == DictGet(state.bodies, s.bodies[i].k, <<>>)
                          IN [k |-> s.bodies[i].k,
                              v |-> [s.bodies[i].v EXCEPT !.x = saved.pose.x,
                                                          !.theta = saved.pose.theta,
                                                          !.v = saved.lin_vel,
                                                          !.w = saved.ang_vel]]
                     ELSE s.bodies[i]]]

\* sim.motors[name].command(value, sim, dt) called from outside a tick
command_motor(s, name, value) ==
    IF ~DictHas(s.motors, name) THEN s
    ELSE LET i      == DictIndex(s.motors, name)
             motor  == s.motors[i].v
             parent == motor.parent[1]
             r      == motor_command(motor, DictGet(s.bodies, parent, Body(0, 0, 0, FALSE, 0, 0)),
                                     value, s.hz, s.step_index)
         IN [s EXCEPT !.motors[i].v = r.motor,
                      !.bodies = DictPut(s.bodies, parent, r.body)]

\* the key of robot_configs whose value is the object self.robot_cfg also
\* refers to: the first robot's id, unless a later robot of the same id has
\* taken its place in robot_configs
primary_key(s) ==
    IF Len(s.robot_ids) > 0 /\ ~\E j \in 2..Len(s.robot_ids) : s.robot_ids[j] = s.robot_ids[1]
    THEN Some(s.robot_ids[1]) ELSE None

\* robot_id or (self.robot_ids[0] if self.robot_ids else None)
selected_robot(s, robot_id) ==
    IF robot_id # None /\ robot_id # Some("") THEN robot_id
    ELSE IF Len(s.robot_ids) > 0 THEN Some(s.robot_ids[1]) ELSE None

\* a reposition that makes every pose it is given the spawn pose
reposition_robot_respawn(s, spawn_pose, zero_velocity, set_as_spawn, robot_id) ==
    LET rid == selected_robot(s, robot_id)
        own == rid # None /\ DictHas(s.robot_configs, rid[1])
        found == IF own THEN Some(DictGet(s.robot_configs, rid[1], <<>>)) ELSE s.robot_cfg
    IN IF rid = None \/ found = None THEN s
       ELSE LET cfg    == found[1]
                placed == {cfg.bodies[i].name : i \in 1..Len(cfg.bodies)}
                local(name) == cfg.bodies[CHOOSE i \in 1..Len(cfg.bodies) :
                                              cfg.bodies[i].name = name].x
                key    == IF own THEN rid ELSE primary_key(s)
                moved  == [cfg EXCEPT !.spawn_pose = spawn_pose]
            IN [s EXCEPT
                  !.bodies =
                      [i \in 1..Len(s.bodies) |->
                          IF s.bodies[i].k \in placed
                          THEN [k |-> s.bodies[i].k,
                                v |-> [s.bodies[i].v EXCEPT
                                         !.x = local(s.bodies[i].k) + spawn_pose,
                                         !.theta = 0,
                                         !.v = IF zero_velocity THEN 0 ELSE @,
                                         !.w = IF zero_velocity THEN 0 ELSE @,
                                         !.force = IF zero_velocity THEN 0 ELSE @]]
                          ELSE s.bodies[i]],
                  !.robot_configs =
                      IF key # None
                      THEN DictPut(s.robot_configs, key[1], moved)
                      ELSE s.robot_configs,
                  !.robot_cfg =
                      IF ~own \/ primary_key(s) = rid
                      THEN Some(moved)
                      ELSE s.robot_cfg,
                  !.joints = [i \in 1..Len(s.joints) |->
                                 [s.joints[i] EXCEPT !.lambda_accum = 0]]]

\* Simulator.reposition_robot(spawn_pose, zero_velocity, set_as_spawn,
\* robot_id): the config is robot_configs.get(rid) or self.robot_cfg, the
\* bodies moved are those it names, and every joint's multiplier is cleared
reposition_robot(s, spawn_pose, zero_velocity, set_as_spawn, robot_id) ==
    LET rid == selected_robot(s, robot_id)
        own == rid # None /\ DictHas(s.robot_configs, rid[1])
        found == IF own THEN Some(DictGet(s.robot_configs, rid[1], <<>>)) ELSE s.robot_cfg
    IN IF rid = None \/ found = None THEN s
       ELSE LET cfg    == found[1]
                placed == {cfg.bodies[i].name : i \in 1..Len(cfg.bodies)}
                local(name) == cfg.bodies[CHOOSE i \in 1..Len(cfg.bodies) :
                                              cfg.bodies[i].name = name].x
                key    == IF own THEN rid ELSE primary_key(s)
                moved  == [cfg EXCEPT !.spawn_pose = spawn_pose]
            IN [s EXCEPT
                  !.bodies =
                      [i \in 1..Len(s.bodies) |->
                          IF s.bodies[i].k \in placed
                          THEN [k |-> s.bodies[i].k,
                                v |-> [s.bodies[i].v EXCEPT
                                         !.x = local(s.bodies[i].k) + spawn_pose,
                                         !.theta = 0,
                                         !.v = IF zero_velocity THEN 0 ELSE @,
                                         !.w = IF zero_velocity THEN 0 ELSE @,
                                         !.force = IF zero_velocity THEN 0 ELSE @]]
                          ELSE s.bodies[i]],
                  !.robot_configs =
                      IF set_as_spawn /\ key # None
                      THEN DictPut(s.robot_configs, key[1], moved)
                      ELSE s.robot_configs,
                  !.robot_cfg =
                      IF set_as_spawn /\ (~own \/ primary_key(s) = rid)
                      THEN Some(moved)
                      ELSE s.robot_cfg,
                  !.joints = [i \in 1..Len(s.joints) |->
                                 [s.joints[i] EXCEPT !.lambda_accum = 0]]]

\* Simulator.reset_to_spawn(robot_id)
reset_to_spawn(s, robot_id) ==
    LET rid == selected_robot(s, robot_id)
        cfg == IF rid = None THEN s.robot_cfg
               ELSE IF DictHas(s.robot_configs, rid[1])
                    THEN Some(DictGet(s.robot_configs, rid[1], <<>>)) ELSE None
    IN IF cfg = None THEN s
       ELSE reposition_robot(s, cfg[1].spawn_pose, TRUE, FALSE, rid)

(***************************************************************************)
(* Scenes.                                                                 *)
(***************************************************************************)
\* a terrain object: a wall 1 m ahead of the origin; a strip of line on the
\* floor under the origin
Wall == BodyConfig("wall", 1000000, 1600, 20000, FALSE, 0)

Strip == BodyConfig("strip", 0, 10, 30000, FALSE, 800)

\* a one-body robot with one wheel motor and an IMU
Rover(module) ==
    RobotConfig(<<BodyConfig("base", 0, 1600, 50000, TRUE, 0)>>, <<>>,
                <<ActuatorConfig("left_motor", "base", 2000, 90, None)>>,
                <<SensorConfig("imu", "imu", "base")>>, module)

\* a robot towing a trailer on a joint, with a distance sensor
Tractor(module) ==
    RobotConfig(<<BodyConfig("base", 0, 1600, 50000, TRUE, 0),
                  BodyConfig("trailer", -150000, 800, 40000, TRUE, 0)>>,
                <<JointConfig("base", "trailer", -70000, 70000)>>,
                <<ActuatorConfig("left_motor", "base", 3000, 90, None)>>,
                <<SensorConfig("front_distance", "distance", "base")>>, module)

\* a scenario: world (seed, timestep as hz, terrain; gravity at WorldConfig's
\* default (0.0, 0.0)) and robots
Scene(name, seed, hz, terrain, robots) ==
    [name |-> name, seed |-> seed, hz |-> hz, terrain |-> terrain, robots |-> robots,
     gravity |-> 0]

\* a rover facing the wall with a tractor and its trailer behind it
Duo == Scene("duo", Some(11), 120, <<Wall>>,
             <<ScenarioRobot("r1", Rover("ctrl_a"), 600000),
               ScenarioRobot("r2", Tractor("ctrl_b"), 300000)>>)

\* one rover on its own, its id and controller module left to the defaults
Solo == Scene("solo", Some(7), 100, <<Wall>>, <<ScenarioRobot("", Rover(""), 500000)>>)

Scenes == {Duo, Solo}

\* the controller modules a scene's robots name
modules_of(scene) ==
    {IF scene.robots[i].config.controller_module = "" THEN "controller"
     ELSE scene.robots[i].config.controller_module : i \in 1..Len(scene.robots)}

(***************************************************************************)
(* The simulator driven through its API.                                   *)
(***************************************************************************)
MaxSteps == 2

MaxInstances == 3

Behaviours == {Drive(1000), Raise}

LoadArtifacts == {"legacy"}

ReloadArtifacts == {"legacy", "import_raises"}

KeepPrevious == {FALSE}

Idle == [kind |-> "none"]

\* the record of an API call: its kind and the exception it raised; loaded
\* remembers the arguments and outcome of the last load
Call(kind, raised, loaded) == [kind |-> kind, raised |-> raised, loaded |-> loaded]

NotLoaded == [scene |-> Scene("", None, 0, <<>>, <<>>), artifacts |-> <<>>, raised |-> None]

NoCalls == [calls |-> <<>>, flagged |-> <<>>, phases |-> <<>>]

Init ==
    /\ sim = NewSimulator(1)
    /\ op = Call("new", None, NotLoaded)
    /\ ctl = NoCalls
    /\ heap = 0
    /\ twin = Idle /\ snap = Idle /\ wheel = Idle /\ disk = Idle /\ world = Idle

\* sim.load(path, world_cfg, robots=robots) on a new simulator
LoadScene(scenes, states) ==
    \E scene \in scenes : \E artifacts \in [modules_of(scene) -> states] :
        /\ sim.scenario_path = None
        /\ \E L \in {load(sim, scene, artifacts, 1, heap)} :
              /\ sim' = L.sim
              /\ heap' = L.heap
              /\ op' = Call("load", L.raised,
                            [scene |-> scene, artifacts |-> artifacts, raised |-> L.raised])
        /\ ctl' = NoCalls
        /\ UNCHANGED <<twin, snap, wheel, disk, world>>

Load == LoadScene(Scenes, LoadArtifacts)

\* the robots whose controller a tick invokes
invoked(s) ==
    {rid \in Range(s.robot_ids) :
        controller_of(s, rid) # None /\ ~DictHas(s.last_controller_errors, rid)}

\* sim.step(), at most limit times, each controller called doing one of the
\* given things
StepWith(limit, behaviours) ==
    \E behaviour \in [invoked(sim) -> behaviours] :
        /\ sim.scenario_path # None /\ op.loaded.raised = None
        /\ sim.step_index < limit
        /\ \E T \in {step(sim, behaviour)} :
              /\ sim' = T.sim
              /\ ctl' = [calls |-> T.calls, flagged |-> T.flagged, phases |-> T.phases]
        /\ op' = Call("step", None, op.loaded)
        /\ UNCHANGED <<twin, snap, heap, wheel, disk, world>>

Step == StepWith(MaxSteps, Behaviours)

\* sim.clear_controller_error(robot_id) and sim.clear_controller_error()
ClearControllerError ==
    \E target \in {None} \cup {Some(rid) : rid \in Range(sim.robot_ids)} :
        /\ sim.scenario_path # None /\ op.loaded.raised = None
        /\ sim' = clear_controller_error(sim, target)
        /\ op' = Call("clear", None, op.loaded)
        /\ UNCHANGED <<twin, snap, ctl, heap, wheel, disk, world>>

\* sim.reload_controller(robot_id, keep_previous=...)
ReloadController ==
    \E rid \in Range(sim.robot_ids), artifact \in ReloadArtifacts, keep_previous \in KeepPrevious :
        /\ sim.scenario_path # None /\ op.loaded.raised = None
        /\ heap < MaxInstances
        /\ \E L \in {reload_controller([sim |-> sim, raised |-> None, heap |-> heap],
                                      rid, artifact, keep_previous)} :
              /\ sim' = L.sim
              /\ heap' = L.heap
              /\ op' = Call("reload", L.raised, op.loaded)
        /\ UNCHANGED <<twin, snap, ctl, wheel, disk, world>>

Next == Load \/ Step \/ ClearControllerError \/ ReloadController

Spec == Init /\ [][Next]_vars

\* the phases of a tick, in the order step runs them
AllPhases == <<"sensors", "controller", "integrate", "joints", "contacts", "sanity", "advance">>

\* the robots a tick's controller calls were made for, one entry per call
callers(calls) == [i \in 1..Len(calls) |-> calls[i].robot_id]

\* a joint names the body
jointed(s, name) ==
    \E i \in 1..Len(s.joints) : s.joints[i].cfg.parent = name \/ s.joints[i].cfg.child = name

\* the body overlaps another body
touching(s, name) ==
    \E i \in 1..Len(s.bodies) :
        /\ s.bodies[i].k # name
        /\ collision_manifold(DictGet(s.bodies, name, <<>>), s.bodies[i].v) # None

\* what the sensors read from the state a tick starts in
sampled(s) == update_sensors(begin_step(s))

\* C1: a tick runs its phases in the order sensors, controllers, integrate,
\* joints, contacts, sanity clamp, advance time and step_index: every
\* controller call receives the readings sampled from the body state the
\* previous tick left, a body that only its motor acts on moves by the
\* velocity it has after the motor's impulse, and time and step_index
\* advance by one timestep.
C1_TickOrder ==
    [][op'.kind = "step" =>
          /\ ctl'.phases = AllPhases
          /\ \A i \in 1..Len(ctl'.calls) :
                 ctl'.calls[i].readings =
                     DictGet(sampled(sim).sim.last_sensor_readings_by_robot,
                             ctl'.calls[i].robot_id, sampled(sim).readings)
          /\ \A i \in 1..Len(sim.bodies) :
                 LET name   == sim.bodies[i].k
                     before == sim.bodies[i].v
                     after  == DictGet(sim'.bodies, name, before)
                 IN (/\ after.can_move
                     /\ ~jointed(sim, name)
                     /\ ~touching(sim', name)
                     /\ sim'.last_physics_warning = None)
                    => after.x = before.x + Quot(after.v * 1000, sim.hz)
          /\ sim'.step_index = sim.step_index + 1
          /\ sim'.time = DAdd(sim.time, DInv(sim.hz))]_vars

\* a second tick in which a controller received a reading and drove a motor
\* whose impulse moved its body
C1_DrivenTick ==
    /\ op.kind = "step" /\ sim.step_index >= 2
    /\ \E i \in 1..Len(ctl.calls) :
           /\ Len(ctl.calls[i].readings) > 0
           /\ ctl.calls[i].did.kind = "drive"
    /\ \E i \in 1..Len(sim.motors) :
           /\ sim.motors[i].v.last_report # None
           /\ sim.motors[i].v.last_report[1].applied_longitudinal_impulse # 0
           /\ sim.motors[i].v.last_report[1].step = Some(sim.step_index - 1)
           /\ ~jointed(sim, sim.motors[i].v.parent[1])

\* the tick with the controllers that raised in it returning quietly instead
quiet(calls) ==
    [rid \in Range(callers(calls)) |->
        LET did == calls[CHOOSE i \in 1..Len(calls) : calls[i].robot_id = rid].did
        IN IF did.kind = "raise" THEN Pass ELSE did]

\* C2: when a controller raises in a tick, then and on every later tick the
\* controller of every robot that has one and has no recorded error is
\* called exactly once, all phases of the tick run and leave the bodies and
\* motors as a tick in which the controller merely returned, step returns
\* normally and step_index grows by exactly 1.
C2_Isolation ==
    [][op'.kind = "step" =>
          /\ op'.raised = None
          /\ sim'.step_index = sim.step_index + 1
          /\ ctl'.phases = AllPhases
          /\ \A rid \in invoked(sim) :
                 Cardinality({i \in 1..Len(ctl'.calls) : ctl'.calls[i].robot_id = rid}) = 1
          /\ (\E i \in 1..Len(ctl'.calls) : ctl'.calls[i].did.kind = "raise")
             => LET other == step(sim, quiet(ctl'.calls)).sim
                IN sim'.bodies = other.bodies /\ sim'.motors = other.motors]_vars

\* a tick in which the first robot's controller raised and the second
\* robot's controller, called after it, drove its motors
C2_RaisedAndDrove ==
    /\ op.kind = "step"
    /\ Len(ctl.calls) >= 2
    /\ ctl.calls[1].did.kind = "raise"
    /\ ctl.calls[2].did.kind = "drive"
    /\ ctl.calls[1].robot_id # ctl.calls[2].robot_id
    /\ DictHas(sim.last_controller_errors, ctl.calls[1].robot_id)

\* C3: a robot with a recorded controller error is not called in a tick; a
\* recorded error goes away only by clear_controller_error or by a reload
\* that registers a new controller; clearing leaves the registered
\* controller in place, an error recorded by a tick belongs to a robot with
\* a registered controller, and a registered controller with no recorded
\* error is the one called in the next tick.
C3_SkipUntilCleared ==
    [][/\ op'.kind = "step" =>
             /\ \A rid \in DictKeys(sim.last_controller_errors) :
                    rid \notin Range(callers(ctl'.calls))
             /\ \A rid \in invoked(sim) :
                    \E i \in 1..Len(ctl'.calls) :
                        /\ ctl'.calls[i].robot_id = rid
                        /\ ctl'.calls[i].oid = controller_of(sim, rid)[1].oid
       /\ \A rid \in DictKeys(sim.last_controller_errors) \ DictKeys(sim'.last_controller_errors) :
              \/ op'.kind = "clear"
              \/ /\ op'.kind = "reload" /\ op'.raised = None
                 /\ heap' = heap + 1
                 /\ controller_of(sim', rid) # None
                 /\ controller_of(sim', rid)[1].oid = heap'
       /\ op'.kind = "clear" =>
              \A rid \in Range(sim.robot_ids) : controller_of(sim', rid) = controller_of(sim, rid)
       /\ \A rid \in DictKeys(sim'.last_controller_errors) :
              DictGet(sim'.last_controller_errors, rid, "") = "step traceback"
                  => controller_of(sim', rid) # None]_vars

\* the second tick of the two-robot scene, in which the first robot's
\* original controller was called and raised although its motor has never
\* been commanded: it raised in the first tick too, and its error was cleared
\* in between
C3_CalledAgain ==
    /\ op.kind = "step" /\ sim.step_index = 2
    /\ Len(sim.robot_ids) = 2
    /\ \E i \in 1..Len(ctl.calls) :
           /\ ctl.calls[i].robot_id = sim.robot_ids[1]
           /\ ctl.calls[i].oid = 1
           /\ ctl.calls[i].did.kind = "raise"
    /\ \A i \in 1..Len(sim.motors) :
           DictGet(sim.motor_owners, sim.motors[i].k, "") = sim.robot_ids[1]
               => sim.motors[i].v.last_report = None

(***************************************************************************)
(* Loading with controller artifacts that are missing or fail to load,     *)
(* then stepping and reloading.                                            *)
(***************************************************************************)
FaultyStates == {"missing", "import_raises", "ctor_raises"}

LoadFaulty == LoadScene(Scenes, {"legacy"} \cup FaultyStates)

NextFaulty == LoadFaulty \/ Step \/ ReloadController

SpecFaulty == Init /\ [][NextFaulty]_vars

\* the robot's controller artifact was missing or failed to load when the
\* scene was loaded
faulty(o, s, rid) ==
    /\ DictHas(s.robot_configs, rid)
    /\ o.loaded.artifacts[DictGet(s.robot_configs, rid, <<>>).controller_module] \in FaultyStates

\* C5 as stated: once a robot's controller was missing or failed to load at
\* load, no later tick ever calls a controller for it.
C5_NeverInvoked ==
    [][op'.kind = "step" =>
          \A rid \in Range(sim.robot_ids) :
              faulty(op, sim, rid) => rid \notin Range(callers(ctl'.calls))]_vars

\* C5: a missing controller file or a controller whose import or
\* construction raises does not abort load; the error is recorded under the
\* robot and no instance is registered for it; until a later
\* reload_controller registers a new instance for the robot no tick calls a
\* controller for it, while every tick runs all its phases and moves the
\* bodies.
C5_NoControllerUntilReloaded ==
    [][/\ op'.kind = "load" =>
             /\ op'.raised = None
             /\ \A rid \in Range(sim'.robot_ids) :
                    faulty(op', sim', rid) =>
                        /\ DictHas(sim'.last_controller_errors, rid)
                        /\ sim'.last_controller_error # None
                        /\ ~DictHas(sim'.controller_instances, rid)
                        /\ controller_of(sim', rid) = None
       /\ op'.kind = "step" =>
             /\ ctl'.phases = AllPhases
             /\ sim'.step_index = sim.step_index + 1
             /\ \A rid \in Range(sim.robot_ids) :
                    (faulty(op, sim, rid) /\ controller_of(sim, rid) = None)
                        => rid \notin Range(callers(ctl'.calls))
             /\ \A i \in 1..Len(sim.bodies) :
                    LET name   == sim.bodies[i].k
                        before == sim.bodies[i].v
                        after  == DictGet(sim'.bodies, name, before)
                    IN (/\ after.can_move
                        /\ ~jointed(sim, name)
                        /\ ~touching(sim', name)
                        /\ sim'.last_physics_warning = None)
                       => after.x = before.x + Quot(after.v * 1000, sim.hz)
       /\ \A rid \in Range(sim.robot_ids) :
              (faulty(op, sim, rid) /\ controller_of(sim, rid) = None
                                   /\ controller_of(sim', rid) # None)
                  => /\ op'.kind = "reload" /\ op'.raised = None
                     /\ heap' = heap + 1
                     /\ controller_of(sim', rid)[1].oid = heap']_vars

\* a tick of the two-robot scene in which the second robot, whose controller
\* failed to load, has its error recorded and was not called, while the
\* first robot's controller drove
C5_FaultySkipped ==
    /\ op.kind = "step" /\ sim.step_index >= 1
    /\ Len(sim.robot_ids) = 2
    /\ faulty(op, sim, sim.robot_ids[2])
    /\ DictHas(sim.last_controller_errors, sim.robot_ids[2])
    /\ controller_of(sim, sim.robot_ids[2]) = None
    /\ callers(ctl.calls) = <<sim.robot_ids[1]>>
    /\ ctl.calls[1].did.kind = "drive"
    /\ ctl.phases = AllPhases

(***************************************************************************)
(* Sensor sampling: a robot carrying one sensor of each type, stepped at   *)
(* two timesteps.                                                          *)
(***************************************************************************)
Probe(module) ==
    RobotConfig(<<BodyConfig("base", 0, 1600, 50000, TRUE, 0)>>, <<>>,
                <<ActuatorConfig("left_motor", "base", 2000, 90, None)>>,
                <<SensorConfig("front_distance", "distance", "base"),
                  SensorConfig("line", "line", "base"),
                  SensorConfig("imu", "imu", "base"),
                  SensorConfig("encoder", "encoder", "base")>>, module)

Bench(hz) == Scene("bench", Some(3), hz, <<Wall>>, <<ScenarioRobot("", Probe("ctrl_a"), 500000)>>)

SensorScenes == {Bench(120), Bench(240)}

MaxSensorTicks == 7

LoadSensors == LoadScene(SensorScenes, {"legacy"})

TickSensors == StepWith(MaxSensorTicks, {Drive(1000), Pass})

NextSensor == LoadSensors \/ TickSensors

SpecSensor == Init /\ [][NextSensor]_vars

\* C7: after tick number k every sensor has an entry in the tick's readings
\* exactly when k is a multiple of ceil(P / dt), P = 1 / update_rate_hz and
\* dt = 1 / hz.
C7_EveryCeilTick ==
    op.kind = "step" =>
        \A i \in 1..Len(sim.sensors) :
            DictHas(sim.last_sensor_readings, sim.sensors[i].k)
                <=> sim.step_index % CeilDiv(sim.hz, sim.sensors[i].v.update_rate_hz) = 0

\* the 40 Hz distance sensor stepped at 1/240 s has its first reading in
\* tick 7
C7_LateReading ==
    /\ op.kind = "step" /\ sim.hz = 240 /\ sim.step_index = 7
    /\ DictHas(sim.last_sensor_readings, "front_distance")
    /\ DictGet(sim.sensors, "front_distance", <<>>).last_reading # None

(***************************************************************************)
(* Snapshot and restore: a robot with a driven base and a loose puck;      *)
(* snap holds the snapshot taken, the simulator at that moment, the        *)
(* simulator just before the snapshot was applied, and the calls made.     *)
(***************************************************************************)
Carrier(module) ==
    RobotConfig(<<BodyConfig("base", 0, 1600, 50000, TRUE, 0),
                  BodyConfig("puck", -300000, 400, 20000, TRUE, 0)>>, <<>>,
                <<ActuatorConfig("left_motor", "base", 2000, 90, None)>>,
                <<SensorConfig("imu", "imu", "base")>>, module)

Yard == Scene("yard", Some(5), 120, <<Wall>>, <<ScenarioRobot("", Carrier("ctrl_a"), 500000)>>)

\* a snapshot file written earlier: the puck sliding and spinning, and a
\* body the scene does not have
Stored ==
    [time   |-> DInv(4),
     step   |-> 30,
     bodies |-> <<[k |-> "puck", v |-> [pose |-> [x |-> -400000, theta |-> 250],
                                        lin_vel |-> -200, ang_vel |-> 2000]],
                  [k |-> "crate", v |-> [pose |-> [x |-> 0, theta |-> 0],
                                         lin_vel |-> 0, ang_vel |-> 0]]>>,
     controller_state |-> None]

MaxSnapCalls == 4

NotTaken == [taken |-> None, before |-> None, calls |-> 0]

InitSnap ==
    /\ sim = NewSimulator(1)
    /\ op = Call("new", None, NotLoaded)
    /\ ctl = NoCalls
    /\ heap = 0
    /\ snap = NotTaken
    /\ twin = Idle /\ wheel = Idle /\ disk = Idle /\ world = Idle

LoadYard ==
    /\ LoadScene({Yard}, {"legacy"})
    /\ snap' = snap

Called == [snap EXCEPT !.calls = snap.calls + 1, !.before = None]

Ready == sim.scenario_path # None /\ snap.calls < MaxSnapCalls

\* sim.step()
StepSnap ==
    \E behaviour \in [invoked(sim) -> {Drive(1000), Pass}] :
        /\ Ready
        /\ \E T \in {step(sim, behaviour)} :
              /\ sim' = T.sim
              /\ ctl' = [calls |-> T.calls, flagged |-> T.flagged, phases |-> T.phases]
        /\ op' = Call("step", None, op.loaded)
        /\ snap' = Called
        /\ UNCHANGED <<twin, heap, wheel, disk, world>>

\* a motor commanded from outside a tick
CommandMotor ==
    \E name \in DictKeys(sim.motors), value \in {-1000} :
        /\ Ready
        /\ sim' = command_motor(sim, name, value)
        /\ op' = Call("command", None, op.loaded)
        /\ snap' = Called
        /\ UNCHANGED <<twin, ctl, heap, wheel, disk, world>>

\* sim.reposition_robot(...)
Reposition ==
    \E zero_velocity \in BOOLEAN, robot_id \in {None} :
        /\ Ready
        /\ sim' = reposition_robot(sim, 200000, zero_velocity, ~zero_velocity, robot_id)
        /\ op' = Call("reposition", None, op.loaded)
        /\ snap' = Called
        /\ UNCHANGED <<twin, ctl, heap, wheel, disk, world>>

\* sim.apply_snapshot(load_snapshot(path))
ApplyStored ==
    /\ Ready
    /\ sim' = apply_snapshot(sim, Stored)
    /\ op' = Call("apply_stored", None, op.loaded)
    /\ snap' = Called
    /\ UNCHANGED <<twin, ctl, heap, wheel, disk, world>>

\* s = sim.snapshot()
Snapshot ==
    /\ sim.scenario_path # None
    /\ snap.taken = None
    /\ snap' = [taken |-> Some([state |-> snapshot(sim), at |-> sim]), before |-> None,
                calls |-> snap.calls]
    /\ op' = Call("snapshot", None, op.loaded)
    /\ UNCHANGED <<sim, twin, ctl, heap, wheel, disk, world>>

\* sim.apply_snapshot(s)
ApplySnapshot ==
    /\ snap.taken # None
    /\ op.kind # "apply"
    /\ sim' = apply_snapshot(sim, snap.taken[1].state)
    /\ snap' = [snap EXCEPT !.before = Some(sim)]
    /\ op' = Call("apply", None, op.loaded)
    /\ UNCHANGED <<twin, ctl, heap, wheel, disk, world>>

NextSnap ==
    \/ LoadYard \/ StepSnap \/ CommandMotor \/ Reposition \/ ApplyStored
    \/ Snapshot \/ ApplySnapshot

SpecSnap == InitSnap /\ [][NextSnap]_vars

\* the fields of a body that a snapshot is about
kinematics(body) == <<body.x, body.theta, body.v, body.w>>

Unseeded == Scene("unseeded", None, 120, <<Wall>>, <<ScenarioRobot("", Probe("ctrl_a"), 500000)>>)

DetScenes == {Bench(120), Unseeded}

Entropies == {1, 2}

MaxDetCalls == 4

InitDet ==
    /\ \E e1 \in Entropies, e2 \in Entropies :
           /\ sim = NewSimulator(e1)
           /\ twin = [sim |-> NewSimulator(e2), calls |-> 0, entropies |-> <<e1, e2>>]
    /\ op = Call("new", None, NotLoaded)
    /\ ctl = NoCalls
    /\ heap = 0
    /\ snap = Idle /\ wheel = Idle /\ disk = Idle /\ world = Idle

\* both runs load the scene
LoadBoth ==
    \E scene \in DetScenes, e1 \in Entropies, e2 \in Entropies :
        /\ sim.scenario_path = None
        /\ \E artifacts \in {[m \in modules_of(scene) |-> "legacy"]} :
           \E L1 \in {load(sim, scene, artifacts, e1, 0)}, L2 \in {load(twin.sim, scene, artifacts, e2, 0)} :
              /\ sim' = L1.sim
              /\ twin' = [twin EXCEPT !.sim = L2.sim]
              /\ op' = Call("load", L1.raised,
                            [scene |-> scene, artifacts |-> artifacts, raised |-> L1.raised])
        /\ UNCHANGED <<snap, ctl, heap, wheel, disk, world>>

\* both runs step, their controllers doing the same
StepBoth ==
    \E behaviour \in [invoked(sim) -> {Drive(1000), Pass}] :
        /\ sim.scenario_path # None /\ twin.calls < MaxDetCalls
        /\ sim' = step(sim, behaviour).sim
        /\ twin' = [twin EXCEPT !.sim = step(twin.sim, behaviour).sim, !.calls = @ + 1]
        /\ op' = Call("step", None, op.loaded)
        /\ UNCHANGED <<snap, ctl, heap, wheel, disk, world>>

\* both runs are given the same motor command from outside a tick
CommandBoth ==
    \E name \in DictKeys(sim.motors), value \in {-1000, 500} :
        /\ sim.scenario_path # None /\ twin.calls < MaxDetCalls
        /\ sim' = command_motor(sim, name, value)
        /\ twin' = [twin EXCEPT !.sim = command_motor(twin.sim, name, value), !.calls = @ + 1]
        /\ op' = Call("command", None, op.loaded)
        /\ UNCHANGED <<snap, ctl, heap, wheel, disk, world>>

NextDet == LoadBoth \/ StepBoth \/ CommandBoth

SpecDet == InitDet /\ [][NextDet]_vars

Kit(actuator_body, sensor_body, sensor_type, joint_child, module) ==
    RobotConfig(<<BodyConfig("base", 0, 1600, 50000, TRUE, 0),
                  BodyConfig("arm", -150000, 800, 40000, TRUE, 0)>>,
                <<JointConfig("base", joint_child, -70000, 70000)>>,
                <<ActuatorConfig("motor", actuator_body, 2000, 90, None)>>,
                <<SensorConfig("eye", sensor_type, sensor_body)>>, module)

\* the second (or only) robot of a scene
Kits(module) ==
    {Kit(actuator_body, sensor_body, sensor_type, joint_child, module) :
        actuator_body \in {"base", "ghost"},
        sensor_body \in {"base", "ghost", "wall", "r1/base"},
        sensor_type \in {"distance", "lidar"},
        joint_child \in {"arm", "ghost"}}

\* the first robot of a two-robot scene
FirstKits ==
    {Kit("base", "base", "distance", "arm", "ctrl_a"),
     Kit("ghost", "base", "distance", "arm", "ctrl_a"),
     Kit("base", "arm", "lidar", "arm", "ctrl_a")}

LoadScenes ==
    {Scene("single", Some(1), 120, <<Wall>>, <<ScenarioRobot(id, kit, 500000)>>) :
        id \in {"", "r1"}, kit \in Kits("ctrl_b")}
    \cup
    {Scene("pair", Some(1), 120, <<Wall>>,
           <<ScenarioRobot("r1", first, 600000), ScenarioRobot(id, kit, 300000)>>) :
        id \in {"", "r2"}, first \in FirstKits, kit \in Kits("ctrl_b")}

LoadAny == LoadScene(LoadScenes, ArtifactStates)

NextLoad == LoadAny

SpecLoad == Init /\ [][NextLoad]_vars

\* the local body names of robot number i of a scene
own_bodies(scene, i) ==
    {scene.robots[i].config.bodies[j].name : j \in 1..Len(scene.robots[i].config.bodies)}

\* the name under which robot number i's body is stored
stored_name(scene, i, name) ==
    IF Len(scene.robots) > 1 THEN robot_id_of(scene.robots[i], i) \o "/" \o name ELSE name

\* the body a reference of robot number i stands for once the robot's
\* config is prepared
referent(scene, i, name) ==
    IF name \in own_bodies(scene, i) THEN stored_name(scene, i, name) ELSE name

\* the names in the body table when the devices of robot number i are attached
table_at(scene, i) ==
    {scene.terrain[j].name : j \in 1..Len(scene.terrain)}
    \cup UNION {{stored_name(scene, j, name) : name \in own_bodies(scene, j)} : j \in 1..i}

\* the parent bodies the actuators and sensors of robot number i name
device_bodies(scene, i) ==
    LET cfg == scene.robots[i].config
    IN {cfg.actuators[j].body : j \in 1..Len(cfg.actuators)}
       \cup {cfg.sensors[j].body : j \in 1..Len(cfg.sensors)}

dangling(scene) ==
    \E i \in 1..Len(scene.robots) :
        \E name \in device_bodies(scene, i) : referent(scene, i, name) \notin table_at(scene, i)

unsupported(scene) ==
    \E i \in 1..Len(scene.robots) :
        \E j \in 1..Len(scene.robots[i].config.sensors) :
            scene.robots[i].config.sensors[j].type \notin SensorTypes

malformed(scene, artifacts) == \E m \in modules_of(scene) : artifacts[m] = "malformed"

\* C4 as stated, for controller faults: a load whose actuators and sensors
\* all name bodies in the body table and whose sensors are all of a
\* supported type does not abort, whatever the state of the controller
\* artifacts.
C4_ControllerFaultsDoNotAbort ==
    (op.kind = "load" /\ ~dangling(op.loaded.scene) /\ ~unsupported(op.loaded.scene))
        => op.raised = None

\* C4 as the code has it: load aborts whenever an actuator or sensor names a parent body that
\* is not in the body table when it is attached; load aborts exactly when
\* there is such a reference, a sensor of an unsupported type, or a
\* controller definition file that cannot be parsed; a controller that is
\* missing, fails to import or construct, or defines no Controller class
\* does not abort load.
C4_AbortCauses ==
    op.kind = "load" =>
        /\ dangling(op.loaded.scene) => op.raised # None
        /\ op.raised # None <=> \/ dangling(op.loaded.scene)
                                \/ unsupported(op.loaded.scene)
                                \/ malformed(op.loaded.scene, op.loaded.artifacts)

\* a load of two robots that aborted on the second robot's sensor, whose
\* parent body does not exist, nothing else being wrong with the scene
C4_DanglingSensor ==
    /\ op.kind = "load"
    /\ op.raised = Some("ValueError: sensor parent body not found")
    /\ Len(sim.robot_ids) = 2
    /\ ~unsupported(op.loaded.scene)
    /\ ~malformed(op.loaded.scene, op.loaded.artifacts)
    /\ DictHas(sim.motors, "r2/motor")
    /\ ~DictHas(sim.sensors, "r2/eye")

\* C4, the controller fault that aborts: a load of a scene with nothing
\* wrong in its bodies, actuators and sensors stopped on a controller
\* definition file that could not be parsed, the robot's devices attached
\* and no error recorded for it
C4_MalformedDefinition ==
    /\ op.kind = "load"
    /\ op.raised = Some("JSONDecodeError")
    /\ ~dangling(op.loaded.scene)
    /\ ~unsupported(op.loaded.scene)
    /\ malformed(op.loaded.scene, op.loaded.artifacts)
    /\ sim.motors # <<>>
    /\ sim.last_controller_errors = <<>>

\* what C6 says of a completed load; own says whether every body reference
\* of a joint, actuator or sensor is taken to become the stored name of one
\* of the robot's own bodies, or only those that name such a body
names_kept(scene, s, own) ==
    \A i \in 1..Len(scene.robots) :
        LET reference(sc, k, name) == IF own THEN stored_name(sc, k, name)
                                      ELSE referent(sc, k, name)
            rid   == robot_id_of(scene.robots[i], i)
            cfg   == scene.robots[i].config
            first == LET RECURSIVE before(_)
                         before(j) == IF j = 0 THEN 0
                                      ELSE before(j - 1) + Len(scene.robots[j].config.joints)
                     IN before(i - 1)
        IN /\ \A j \in 1..Len(cfg.bodies) :
                  DictHas(s.bodies, stored_name(scene, i, cfg.bodies[j].name))
           /\ \A j \in 1..Len(cfg.actuators) :
                  LET name == stored_name(scene, i, cfg.actuators[j].name)
                  IN /\ DictHas(s.motors, name)
                     /\ DictGet(s.motor_owners, name, "") = rid
                     /\ DictGet(s.motors, name, <<>>).parent
                            = Some(reference(scene, i, cfg.actuators[j].body))
           /\ \A j \in 1..Len(cfg.sensors) :
                  LET name == stored_name(scene, i, cfg.sensors[j].name)
                  IN /\ DictHas(s.sensors, name)
                     /\ DictGet(s.sensor_owners, name, "") = rid
                     /\ DictGet(s.sensors, name, <<>>).parent
                            = Some(reference(scene, i, cfg.sensors[j].body))
           /\ \A j \in 1..Len(cfg.joints) :
                  /\ s.joints[first + j].cfg.parent = reference(scene, i, cfg.joints[j].parent)
                  /\ s.joints[first + j].cfg.child = reference(scene, i, cfg.joints[j].child)

\* the robots of the scene have distinct ids
distinct_ids(scene) ==
    \A i, j \in 1..Len(scene.robots) :
        i # j => robot_id_of(scene.robots[i], i) # robot_id_of(scene.robots[j], j)

\* C6 as stated: after a completed load every body, motor and sensor of a
\* robot is stored under its name, prefixed with "<robot id>/" when there
\* are two or more robots, the owner tables map the devices to the robot,
\* and every joint, actuator and sensor of the robot references one of the
\* robot's own bodies under its stored name.
C6_OwnBodiesOnly ==
    (op.kind = "load" /\ op.raised = None /\ distinct_ids(op.loaded.scene)) =>
        /\ names_kept(op.loaded.scene, sim, FALSE)
        /\ \A i \in 1..Len(op.loaded.scene.robots) :
               LET cfg == op.loaded.scene.robots[i].config
               IN Len(op.loaded.scene.robots) > 1 =>
                  /\ device_bodies(op.loaded.scene, i) \subseteq own_bodies(op.loaded.scene, i)
                  /\ \A j \in 1..Len(cfg.joints) :
                         {cfg.joints[j].parent, cfg.joints[j].child}
                             \subseteq own_bodies(op.loaded.scene, i)
                  /\ names_kept(op.loaded.scene, sim, TRUE)

\* C6: after a completed load every body, motor and sensor of a robot is
\* stored under its name, prefixed with "<robot id>/" when there are two or
\* more robots with distinct ids and unprefixed when there is one; the owner
\* tables map the devices to the robot; a reference of a joint, actuator or
\* sensor to one of the robot's own bodies is to that body's stored name,
\* and any other reference is kept as written.
C6_Namespaced ==
    (op.kind = "load" /\ op.raised = None /\ distinct_ids(op.loaded.scene)) =>
        names_kept(op.loaded.scene, sim, FALSE)

\* a completed load of two robots with the same local names, all of whose
\* references are to their own bodies
C6_SharedLocalNames ==
    /\ op.kind = "load" /\ op.raised = None
    /\ sim.robot_ids = <<"r1", "r2">>
    /\ \A i \in 1..2 :
           /\ device_bodies(op.loaded.scene, i) \subseteq own_bodies(op.loaded.scene, i)
           /\ own_bodies(op.loaded.scene, i) = {"base", "arm"}
    /\ DictKeys(sim.bodies) = {"wall", "r1/base", "r1/arm", "r2/base", "r2/arm"}
    /\ DictKeys(sim.motors) = {"r1/motor", "r2/motor"}
    /\ DictKeys(sim.sensors) = {"r1/eye", "r2/eye"}

(***************************************************************************)
(* Traction harness: one body with one wheel motor, commanded and          *)
(* integrated tick by tick as test_traction_model.py does.                 *)
(***************************************************************************)
MaxTicks == 4

Masses == {1600}

Frictions == {0, 25, 90}

Forces == {0, 3000}

NormalForces == {None, Some(0), Some(4000)}

Rates == {50, 120}

Commands == {-1000, 400, 1500}

InitTraction ==
    /\ wheel \in {[body  |-> Body(0, mass, 50000, TRUE, 10, 0),
                   motor |-> attach(WheelMotor(force, mu, nf, 2, 50, 20, 35000), "chassis"),
                   hz    |-> hz,
                   step_index |-> 0] :
                     mass \in Masses, force \in Forces, mu \in Frictions,
                     nf \in NormalForces, hz \in Rates}
    /\ sim = Idle /\ twin = Idle /\ snap = Idle /\ op = Idle /\ ctl = Idle /\ heap = 0
    /\ disk = Idle /\ world = Idle

\* one tick of the harness: motor.command(value, world, dt), then the body
\* integrates and the tick counter advances
TractionCommand(value) ==
    /\ wheel.step_index < MaxTicks
    /\ \E r \in {motor_command(wheel.motor, wheel.body, value, wheel.hz, wheel.step_index)} :
          wheel' = [wheel EXCEPT !.body = integrate_body(r.body, wheel.hz, 0).body,
                                 !.motor = r.motor,
                                 !.step_index = wheel.step_index + 1]
    /\ UNCHANGED <<sim, twin, snap, op, ctl, heap, disk, world>>

\* a tick without a command: the body coasts
TractionCoast ==
    /\ wheel.step_index < MaxTicks
    /\ wheel' = [wheel EXCEPT !.body = integrate_body(wheel.body, wheel.hz, 0).body,
                              !.step_index = wheel.step_index + 1]
    /\ UNCHANGED <<sim, twin, snap, op, ctl, heap, disk, world>>

NextTraction ==
    \/ \E value \in Commands : TractionCommand(value)
    \/ TractionCoast

SpecTraction == InitTraction /\ [][NextTraction]_vars

\* C10: the applied longitudinal impulse reported for a command is at most
\* mu_long * normal_load * dt in magnitude.
C10_FrictionCone ==
    wheel.motor.last_report # None =>
        LET report == wheel.motor.last_report[1]
        IN Abs(report.applied_longitudinal_impulse) * wheel.hz
               <= wheel.motor.mu_long * report.normal_load * 10

\* C10 where it does hold: a positive traction limit bounds the impulse.
C10_FrictionConePositive ==
    wheel.motor.last_report # None =>
        LET report == wheel.motor.last_report[1]
        IN wheel.motor.mu_long * report.normal_load * 10 >= wheel.hz =>
               Abs(report.applied_longitudinal_impulse) * wheel.hz
                   <= wheel.motor.mu_long * report.normal_load * 10

\* C10, the overdriven case: a frictionless wheel with a positive drive cap
\* has been commanded and reports a non-zero longitudinal impulse.
C10_Overdriven ==
    /\ wheel.motor.last_report # None
    /\ wheel.motor.mu_long = 0
    /\ wheel.motor.max_force > 0
    /\ wheel.motor.last_report[1].applied_longitudinal_impulse # 0

(***************************************************************************)
(* Overdriven wheel: the loop of check_slip_when_overdriven, a wheel on a  *)
(* body at rest commanded 1.0 before every world.step().                   *)
(***************************************************************************)
MaxOverdriveTicks == 12

InitOverdrive ==
    /\ wheel \in {[body  |-> Body(0, mass, 50000, TRUE, 10, 0),
                   motor |-> attach(WheelMotor(3000, mu, None, count, 50, 20, 35000), "chassis"),
                   hz    |-> hz,
                   step_index |-> 0] :
                     mass \in {800, 1600}, mu \in {25, 90}, count \in {1, 2}, hz \in {50, 120}}
    /\ sim = Idle /\ twin = Idle /\ snap = Idle /\ op = Idle /\ ctl = Idle /\ heap = 0
    /\ disk = Idle /\ world = Idle

\* motor.command(1.0, world, world.default_dt); world.step()
OverdriveTick ==
    /\ wheel.step_index < MaxOverdriveTicks
    /\ \E r \in {motor_command(wheel.motor, wheel.body, 1000, wheel.hz, wheel.step_index)} :
          wheel' = [wheel EXCEPT !.body = object_integrate(r.body, wheel.hz),
                                 !.motor = r.motor,
                                 !.step_index = wheel.step_index + 1]
    /\ UNCHANGED <<sim, twin, snap, op, ctl, heap, disk, world>>

NextOverdrive == OverdriveTick

SpecOverdrive == InitOverdrive /\ [][NextOverdrive]_vars

\* C11: a wheel on a body starting at rest, commanded at full magnitude on
\* every tick towards a surface speed its traction cannot deliver, reports
\* a slip ratio above 0.25 and a contact speed after the impulse that is
\* strictly below the wheel's surface speed, on every one of the ticks.
C11_SlipWhenOverdriven ==
    wheel.motor.last_report # None =>
        LET report == wheel.motor.last_report[1]
        IN /\ report.slip_ratio > 250
           /\ report.contact_speed_after < report.preferred_speed

\* C11, the case of the test: mass 1.6 kg, mu_long 0.25, one wheel, dt 0.02,
\* after the twelfth command, the body moving and the impulse at its limit
C11_TwelfthTick ==
    /\ wheel.step_index = 12
    /\ wheel.body.mass = 1600 /\ wheel.motor.mu_long = 25
    /\ wheel.motor.wheel_count = 1 /\ wheel.hz = 50
    /\ wheel.body.v > 0
    /\ wheel.motor.last_report # None
    /\ wheel.motor.last_report[1].preferred_speed = 1750
    /\ wheel.motor.last_report[1].applied_longitudinal_impulse = 60000
    /\ wheel.motor.last_report[1].step = Some(11)


(***************************************************************************)
(* A rover driven into the wall: the rover spawns just short of the wall   *)
(* and its controller commands the motor forward on every tick.            *)
(***************************************************************************)
WallRun(hz, spawn_pose) ==
    Scene("wall_run", Some(1), hz, <<Wall>>, <<ScenarioRobot("", Rover("ctrl_a"), spawn_pose)>>)

MaxWallTicks == 8

WallScenes == {WallRun(hz, spawn_pose) : hz \in {10, 20}, spawn_pose \in {900000, 930000}}

LoadWall == LoadScene(WallScenes, {"legacy"})

PushWall == StepWith(MaxWallTicks, {Drive(1000), Pass})

NextWall == LoadWall \/ PushWall

SpecWall == Init /\ [][NextWall]_vars

\* the x a body was given at load: its robot's spawn pose plus its own offset
\* (a terrain object keeps the x of its config)
spawn_x(s, name) ==
    LET at == {<<i, j>> \in (1..Len(s.robot_configs)) \X (1..1) :
                  s.robot_configs[i].v.bodies[j].name = name}
    IN IF at = {} THEN DictGet(s.bodies, name, Body(0, 0, 0, FALSE, 0, 0)).x
       ELSE LET ij == CHOOSE ij \in at : TRUE
                cfg == s.robot_configs[ij[1]].v
            IN cfg.spawn_pose + cfg.bodies[ij[2]].x

\* the overlap of two bodies along the axis (0 when they are apart)
penetration_of(a, b) ==
    Max(0, Min(a.x + a.half, b.x + b.half) - Max(a.x - a.half, b.x - b.half))

\* body lies wholly beyond the wall, on the side away from where it spawned
passed_through(s, name, body, wall) ==
    \/ spawn_x(s, name) < wall.x /\ body.x - body.half >= wall.x + wall.half
    \/ spawn_x(s, name) > wall.x /\ body.x + body.half <= wall.x - wall.half

\* C12: at the end of every tick a movable body overlaps a static wall by at
\* most contact_slop + max_penetration_correction, and it has not passed
\* through a wall thinner than max_step_translation.
C12_WallHolds ==
    op.kind = "step" =>
        \A i, j \in 1..Len(sim.bodies) :
            LET body == sim.bodies[i].v
                wall == sim.bodies[j].v
            IN body.can_move /\ ~wall.can_move =>
                  /\ penetration_of(body, wall) <= contact_slop + max_penetration_correction
                  /\ 2 * wall.half < sim.max_step_translation
                        => ~passed_through(sim, sim.bodies[i].k, body, wall)

\* the rover, commanded forward on every tick, ends a tick wholly beyond the
\* 0.04 m wall it spawned in front of
C12_ThroughTheWall ==
    /\ op.kind = "step"
    /\ DictHas(sim.bodies, "base") /\ DictHas(sim.bodies, "wall")
    /\ spawn_x(sim, "base") < 1000000
    /\ DictGet(sim.bodies, "base", <<>>).x - 50000 >= 1000000 + 20000
    /\ DictGet(sim.bodies, "wall", <<>>).x = 1000000
    /\ Len(ctl.calls) = 1 /\ ctl.calls[1].did.kind = "drive"

(***************************************************************************)
(* Physics warnings: two rovers spawned side by side (closer than 0.05 m   *)
(* in one scene, which leaves a warning at load), stepped at coarse        *)
(* timesteps so that the per-tick translation limit of a multi-robot       *)
(* scene (0.25 m) is reached.                                              *)
(***************************************************************************)
Pair(hz, gap) ==
    Scene("pair", Some(5), hz, <<Wall>>,
          <<ScenarioRobot("r1", Rover("ctrl_a"), 300000),
            ScenarioRobot("r2", Rover("ctrl_b"), 300000 - gap)>>)

WarnScenes == {Pair(hz, gap) : hz \in {2, 4}, gap \in {40000, 400000}}

MaxWarnTicks == 4

LoadWarn == LoadScene(WarnScenes, {"legacy"})

StepWarn == StepWith(MaxWarnTicks, {Drive(1000), Pass})

NextWarn == LoadWarn \/ StepWarn

SpecWarn == Init /\ [][NextWarn]_vars

\* C13: after a tick last_physics_warning is the last message flagged during
\* that tick, and null when the tick flagged none, so a warning of an earlier
\* tick or of the load is reported no longer; the tick runs all its phases
\* and advances time and step_index whether or not it flagged a warning.
C13_WarningOfTheTick ==
    /\ [](op.kind = "step" =>
            /\ sim.last_physics_warning =
                  IF ctl.flagged = <<>> THEN None ELSE Some(ctl.flagged[Len(ctl.flagged)])
            /\ ctl.phases = AllPhases)
    /\ [][op'.kind = "step" =>
            /\ sim'.step_index = sim.step_index + 1
            /\ sim'.time = DAdd(sim.time, DInv(sim.hz))
            /\ (ctl'.flagged = <<>> => sim'.last_physics_warning = None)]_vars

\* a tick that flagged warnings after a tick that flagged others, in the
\* scene whose load left the spawn-overlap warning
C13_FlaggedAgain ==
    /\ op.kind = "step" /\ sim.step_index >= 2
    /\ Len(ctl.flagged) >= 1
    /\ sim.last_physics_warning = Some("large step clamped")
    /\ Abs(sim.robot_spawn[1].v - sim.robot_spawn[2].v) < 50000
(***************************************************************************)
(* A body that cannot move inside a robot: a post ahead of the base, held  *)
(* to it by a joint, carrying a motor of its own, and in the base's way.   *)
(***************************************************************************)
Anchor(module) ==
    RobotConfig(<<BodyConfig("base", 0, 1600, 50000, TRUE, 0),
                  BodyConfig("post", 90000, 800, 20000, FALSE, 0)>>,
                <<JointConfig("base", "post", 40000, -30000)>>,
                <<ActuatorConfig("left_motor", "base", 2000, 90, None),
                  ActuatorConfig("post_motor", "post", 3000, 90, None)>>,
                <<SensorConfig("imu", "imu", "post")>>, module)

StaticScenes ==
    {Scene("anchored", Some(2), hz, <<Wall>>, <<ScenarioRobot("", Anchor("ctrl_a"), 880000)>>) :
        hz \in {10, 20}}

MaxStaticTicks == 5

LoadStatic == LoadScene(StaticScenes, {"legacy"})

StepStatic == StepWith(MaxStaticTicks, {Drive(1000), Drive(-1000), Pass})

NextStatic == LoadStatic \/ StepStatic

SpecStatic == Init /\ [][NextStatic]_vars

\* C14: a tick leaves the pose and the linear and angular velocity of every
\* body that cannot move as they were, whatever touches it, is jointed to it
\* or drives it.
C14_StaticUnchanged ==
    [][op'.kind = "step" =>
          \A i \in 1..Len(sim.bodies) :
              ~sim.bodies[i].v.can_move =>
                  /\ sim'.bodies[i].k = sim.bodies[i].k
                  /\ ~sim'.bodies[i].v.can_move
                  /\ sim'.bodies[i].v.x = sim.bodies[i].v.x
                  /\ sim'.bodies[i].v.theta = sim.bodies[i].v.theta
                  /\ sim'.bodies[i].v.v = sim.bodies[i].v.v
                  /\ sim'.bodies[i].v.w = sim.bodies[i].v.w]_vars

\* after a tick the post is overlapped by the base, its joint has pulled,
\* and its own motor has been commanded at full magnitude
C14_PostUnderLoad ==
    /\ op.kind = "step"
    /\ DictHas(sim.bodies, "post") /\ ~DictGet(sim.bodies, "post", <<>>).can_move
    /\ penetration_of(DictGet(sim.bodies, "base", <<>>), DictGet(sim.bodies, "post", <<>>)) > 0
    /\ sim.joints[1].cfg.child = "post" /\ sim.joints[1].lambda_accum # 0
    /\ DictGet(sim.motors, "post_motor", <<>>).parent = Some("post")
    /\ DictGet(sim.motors, "post_motor", <<>>).last_command = 1000
    /\ DictGet(sim.bodies, "base", <<>>).v # 0
(***************************************************************************)
(* Resuming from a snapshot: a rover is stepped, a snapshot is taken, the  *)
(* run goes on under some commands, the snapshot is applied and the same   *)
(* commands are given again.  snap holds the snapshot, the commands given  *)
(* since it was taken, the trajectory they produced and, once the snapshot *)
(* has been applied, the number of ticks replayed.                         *)
(***************************************************************************)
ReplayScenes ==
    {Scene("replay", Some(2), hz, <<Wall>>, <<ScenarioRobot("", Rover("ctrl_a"), 300000)>>) :
        hz \in {20, 120}}

MaxLeadTicks == 2

MaxReplayTicks == 2

ReplayBehaviours == {Drive(1000), Drive(-1000), Pass}

LoadReplay == LoadScene(ReplayScenes, {"legacy"})

\* sim.step() before the snapshot is taken
LeadTick == snap = Idle /\ StepWith(MaxLeadTicks, ReplayBehaviours)

\* the pose and velocities of every body
trajectory_point(s) == [i \in 1..Len(s.bodies) |-> [k |-> s.bodies[i].k, v |-> kinematics(s.bodies[i].v)]]

\* s = sim.snapshot()
TakeSnapshot ==
    /\ sim.scenario_path # None /\ op.loaded.raised = None
    /\ snap = Idle
    /\ snap' = [kind |-> "snapshot", state |-> snapshot(sim), commands |-> <<>>,
                trace |-> <<>>, replayed |-> None]
    /\ op' = Call("snapshot", None, op.loaded)
    /\ UNCHANGED <<sim, twin, ctl, heap, wheel, disk, world>>

\* sim.step() after the snapshot, the controller doing what behaviour says
RecordTick ==
    \E behaviour \in [invoked(sim) -> ReplayBehaviours] :
        /\ snap # Idle /\ snap.replayed = None
        /\ Len(snap.commands) < MaxReplayTicks
        /\ \E T \in {step(sim, behaviour)} :
              /\ sim' = T.sim
              /\ ctl' = [calls |-> T.calls, flagged |-> T.flagged, phases |-> T.phases]
              /\ snap' = [snap EXCEPT !.commands = Append(snap.commands, behaviour),
                                      !.trace = Append(snap.trace, trajectory_point(T.sim))]
        /\ op' = Call("step", None, op.loaded)
        /\ UNCHANGED <<twin, heap, wheel, disk, world>>

\* sim.apply_snapshot(s)
Resume ==
    /\ snap # Idle /\ snap.replayed = None
    /\ Len(snap.commands) > 0
    /\ sim' = apply_snapshot(sim, snap.state)
    /\ snap' = [snap EXCEPT !.replayed = Some(0)]
    /\ op' = Call("apply", None, op.loaded)
    /\ UNCHANGED <<twin, ctl, heap, wheel, disk, world>>

\* sim.step() after the snapshot was applied, the controller doing what it
\* did on the same tick of the recorded run
ReplayTick ==
    /\ snap # Idle /\ snap.replayed # None
    /\ snap.replayed[1] < Len(snap.commands)
    /\ \E T \in {step(sim, snap.commands[snap.replayed[1] + 1])} :
          /\ sim' = T.sim
          /\ ctl' = [calls |-> T.calls, flagged |-> T.flagged, phases |-> T.phases]
    /\ snap' = [snap EXCEPT !.replayed = Some(snap.replayed[1] + 1)]
    /\ op' = Call("step", None, op.loaded)
    /\ UNCHANGED <<twin, heap, wheel, disk, world>>

NextReplay == LoadReplay \/ LeadTick \/ TakeSnapshot \/ RecordTick \/ Resume \/ ReplayTick

SpecReplay == Init /\ [][NextReplay]_vars

\* C15: after apply_snapshot(s) and the same commands again, every tick ends
\* with the pose and velocities of every body that the same tick of the run
\* recorded after snapshot() ended with, and with the same time and
\* step_index.
C15_DeterministicRerun ==
    (snap # Idle /\ op.kind = "step") =>
        (snap.replayed # None =>
            /\ trajectory_point(sim) = snap.trace[snap.replayed[1]]
            /\ sim.step_index = snap.state.step + snap.replayed[1])

\* at timestep 1/120 s: two ticks forward, snapshot, one tick backward,
\* apply_snapshot, the same tick backward again, ending somewhere else
C15_RerunDiverged ==
    /\ snap # Idle /\ op.kind = "step" /\ snap.replayed = Some(1)
    /\ sim.hz = 120 /\ snap.state.step = 2
    /\ ctl.calls[1].did = Drive(-1000)
    /\ sim.step_index = 3
    /\ DictGet(sim.bodies, "base", <<>>).x # DictGet(snap.trace[1], "base", <<>>)[1]
(***************************************************************************)
(* The sensor map a controller is handed (the bench of the sensor          *)
(* sampling section: one sensor of each type on one robot).                *)
(***************************************************************************)
\* the sensors of a robot that have produced a reading
sensors_read(s, robot_id) ==
    {i \in 1..Len(s.sensors) :
        /\ DictGet(s.sensor_owners, s.sensors[i].k, "") = robot_id
        /\ s.sensors[i].v.last_reading # None}

\* C16: the sensor map passed to a robot's controller on a tick has, for
\* every sensor of the robot that has produced a reading, an entry with the
\* sensor's latest value, whether or not the sensor refreshed on this tick.
C16_LatestValues ==
    op.kind = "step" =>
        \A c \in 1..Len(ctl.calls) :
            \A i \in sensors_read(sim, ctl.calls[c].robot_id) :
                /\ DictHas(ctl.calls[c].readings, sim.sensors[i].k)
                /\ DictGet(ctl.calls[c].readings, sim.sensors[i].k, <<>>)
                      = sim.sensors[i].v.last_reading[1].value

\* tick 4 at 1/120 s: the 40 Hz distance sensor read on tick 3 and is not
\* due, and the map the controller is handed has the IMU but no distance
C16_StaleSensorAbsent ==
    /\ op.kind = "step" /\ sim.hz = 120 /\ sim.step_index = 4
    /\ Len(ctl.calls) = 1
    /\ DictGet(sim.sensors, "front_distance", <<>>).last_reading # None
    /\ ~DictHas(ctl.calls[1].readings, "front_distance")
    /\ DictHas(ctl.calls[1].readings, "imu")
(***************************************************************************)
(* Design files: core/persistence.py and save_json / load_json of          *)
(* core/config.py.  A Python tuple or list is a record [py, items] with py *)
(* "tuple" or "list"; a JSON array is the same with py = "array".  Of a    *)
(* BodyConfig the name, the points and the pose are carried, of an         *)
(* ActuatorConfig or SensorConfig the name, type, body and mount_pose, of  *)
(* a WorldConfig the terrain.  Coordinates are in micrometres.             *)
(***************************************************************************)
PyTuple(items) == [py |-> "tuple", items |-> items]

PyList(items) == [py |-> "list", items |-> items]

\* the names designs use, in the order of Python's string comparison
DesignNames == <<"arm", "base", "body", "imu", "left", "right", "wall">>

\* sorted(items, key=lambda c: c.name): a stable sort
RECURSIVE sorted_by_name(_)
sorted_by_name(items) ==
    IF items = <<>> THEN <<>>
    ELSE LET rank(name) == CHOOSE i \in 1..Len(DesignNames) : DesignNames[i] = name
             first == Head(items)
             rest == sorted_by_name(Tail(items))
         IN SelectSeq(rest, LAMBDA c : rank(c.name) < rank(first.name))
              \o <<first>>
              \o SelectSeq(rest, LAMBDA c : rank(c.name) >= rank(first.name))

\* _normalize_robot: a robot without bodies gets the default body; actuators,
\* sensors and bodies are sorted by name (sorted() returns a list)
normalize_robot(robot_cfg) ==
    LET default == [name   |-> "body",
                    points |-> PyList(<<PyTuple(<<100000, -60000>>), PyTuple(<<100000, 60000>>),
                                        PyTuple(<<-80000, 60000>>), PyTuple(<<-80000, -60000>>)>>),
                    pose   |-> PyTuple(<<0, 0, 0>>)]
        bodies == IF robot_cfg.bodies.items = <<>> THEN <<default>> ELSE robot_cfg.bodies.items
    IN [robot_cfg EXCEPT !.actuators = PyList(sorted_by_name(robot_cfg.actuators.items)),
                         !.sensors = PyList(sorted_by_name(robot_cfg.sensors.items)),
                         !.bodies = PyList(sorted_by_name(bodies))]

\* save_json(path, obj): _encode turns every dataclass into an object and
\* every tuple or list into an array; kind is "robot" or "world"
save_json(obj, kind) ==
    LET array(v) == [py |-> "array", items |-> v.items]
        points(v) == [py |-> "array", items |-> [i \in 1..Len(v.items) |-> array(v.items[i])]]
        body(b) == [name |-> b.name, points |-> points(b.points), pose |-> array(b.pose)]
        bodies(v) == [py |-> "array", items |-> [i \in 1..Len(v.items) |-> body(v.items[i])]]
        mount(m) == [m EXCEPT !.mount_pose = array(m.mount_pose)]
        mounts(v) == [py |-> "array", items |-> [i \in 1..Len(v.items) |-> mount(v.items[i])]]
        object(o) == [name |-> o.name, body |-> body(o.body)]
        objects(v) == [py |-> "array", items |-> [i \in 1..Len(v.items) |-> object(v.items[i])]]
    IN IF kind = "robot"
       THEN [spawn_pose |-> array(obj.spawn_pose), bodies |-> bodies(obj.bodies),
             actuators |-> mounts(obj.actuators), sensors |-> mounts(obj.sensors),
             controller_module |-> obj.controller_module]
       ELSE [terrain |-> objects(obj.terrain)]

\* load_json(path, cls): json.load reads every array as a list;
\* _dataclass_from_dict rebuilds the dataclasses of list and dataclass fields
\* and keeps every other value as read
load_json(data, kind) ==
    LET list(v) == [py |-> "list", items |-> v.items]
        points(v) == [py |-> "list", items |-> [i \in 1..Len(v.items) |-> list(v.items[i])]]
        body(b) == [name |-> b.name, points |-> points(b.points), pose |-> list(b.pose)]
        bodies(v) == [py |-> "list", items |-> [i \in 1..Len(v.items) |-> body(v.items[i])]]
        mount(m) == [m EXCEPT !.mount_pose = list(m.mount_pose)]
        mounts(v) == [py |-> "list", items |-> [i \in 1..Len(v.items) |-> mount(v.items[i])]]
        object(o) == [name |-> o.name, body |-> body(o.body)]
        objects(v) == [py |-> "list", items |-> [i \in 1..Len(v.items) |-> object(v.items[i])]]
    IN IF kind = "robot"
       THEN [spawn_pose |-> list(data.spawn_pose), bodies |-> bodies(data.bodies),
             actuators |-> mounts(data.actuators), sensors |-> mounts(data.sensors),
             controller_module |-> data.controller_module]
       ELSE [terrain |-> objects(data.terrain)]

\* a _coerce_pose that returns the origin whatever it is given
coerce_pose_origin(value) == PyTuple(<<0, 0, 0>>)

\* _coerce_pose: a falsy value is the origin; a list or tuple of three is a
\* tuple of floats (anything else raises, and no design here has such a pose)
coerce_pose(value) ==
    IF value.items = <<>> THEN PyTuple(<<0, 0, 0>>) ELSE PyTuple(value.items)

\* save_robot_design: the object is normalised in place, then written
save_robot_design(robot_cfg) ==
    LET written(r) == [robot_cfg |-> r, file |-> save_json(r, "robot")]
    IN written(normalize_robot(robot_cfg))

\* load_robot_design
load_robot_design(file) == normalize_robot(load_json(file, "robot"))

\* save_scenario(path, world_cfg, robot_cfg): _normalize_world changes bounds,
\* drawings, shape and custom objects and the designer state, none of which
\* the world here has, and leaves the terrain as it is
save_scenario(world_cfg, robot_cfg) ==
    LET written(r) == [robot_cfg |-> r, world_cfg |-> world_cfg,
                       robot_json |-> save_json(r, "robot"),
                       world_json |-> save_json(world_cfg, "world")]
    IN written(normalize_robot(robot_cfg))

\* load_scenario(path) of a folder holding world.json and robot.json and no
\* scenario.json: one robot reference "robot" without spawn or controller, so
\* the spawn pose is the robot asset's own
load_scenario(world_json, robot_json) ==
    LET robot(r) == [r EXCEPT !.spawn_pose = coerce_pose(r.spawn_pose),
                              !.controller_module =
                                  IF r.controller_module = "" THEN "controller"
                                  ELSE r.controller_module]
        result(r) == [world |-> load_json(world_json, "world"),
                      robots |-> <<[id |-> "robot", config |-> r,
                                    spawn_pose |-> r.spawn_pose,
                                    controller |-> r.controller_module]>>]
    IN result(normalize_robot(robot(load_robot_design(robot_json))))
(***************************************************************************)
(* Saving and loading designs: a RobotConfig is built, saved as a robot    *)
(* design or as a scenario folder, loaded back, and the loaded object is   *)
(* saved and loaded again.                                                 *)
(***************************************************************************)
MaxBodies == 2

MaxMounts == 2

MaxLoads == 2

Triangle(size) == PyList(<<PyTuple(<<0, 0>>), PyTuple(<<size, 0>>), PyTuple(<<size, 100000>>)>>)

DesignBodies ==
    {[name |-> "base", points |-> Triangle(200000), pose |-> PyTuple(<<0, 0, 0>>)],
     [name |-> "arm", points |-> Triangle(100000), pose |-> PyTuple(<<150000, 0, 500>>)]}

DesignActuators ==
    {[name |-> "right", type |-> "motor", body |-> "base", mount_pose |-> PyTuple(<<0, -100000, 0>>)],
     [name |-> "left", type |-> "motor", body |-> "base", mount_pose |-> PyTuple(<<0, 100000, 0>>)]}

DesignSensors ==
    {[name |-> "imu", type |-> "imu", body |-> "arm", mount_pose |-> PyTuple(<<50000, 0, 0>>)]}

DesignTerrain ==
    {PyList(<<>>),
     PyList(<<[name |-> "wall",
               body |-> [name |-> "wall", points |-> Triangle(40000),
                         pose |-> PyTuple(<<1000000, 0, 0>>)]]>>)}

\* the Python lists of at most n items of a set
RECURSIVE ListsOf(_, _)
ListsOf(S, n) ==
    IF n = 0 THEN {PyList(<<>>)}
    ELSE ListsOf(S, n - 1) \cup {PyList(Append(l.items, x)) : l \in ListsOf(S, n - 1), x \in S}

Designs ==
    {[spawn_pose |-> PyTuple(<<x, 0, 0>>), bodies |-> bodies, actuators |-> actuators,
      sensors |-> sensors, controller_module |-> "ctrl_a"] :
        x \in {0, 500000}, bodies \in ListsOf(DesignBodies, MaxBodies),
        actuators \in ListsOf(DesignActuators, MaxMounts),
        sensors \in ListsOf(DesignSensors, 1)}

InitDesign ==
    /\ disk = Idle
    /\ sim = Idle /\ twin = Idle /\ snap = Idle /\ op = Idle /\ ctl = Idle /\ heap = 0
    /\ wheel = Idle /\ world = Idle

\* RobotConfig(...) and WorldConfig(...): the objects to be saved, as a robot
\* design ("design") or as a scenario folder ("scenario")
NewDesign ==
    /\ disk = Idle
    /\ \E robot_cfg \in Designs, terrain \in DesignTerrain, mode \in {"design", "scenario"} :
          disk' = [mode |-> mode, last |-> "new",
                   original |-> [robot |-> robot_cfg, world |-> [terrain |-> terrain]],
                   robot_cfg |-> robot_cfg, world_cfg |-> [terrain |-> terrain],
                   robot_json |-> None, world_json |-> None, loaded |-> <<>>, saves |-> 0]
    /\ UNCHANGED <<sim, twin, snap, op, ctl, heap, wheel, world>>

\* save_robot_design(path, robot_cfg)
SaveRobotDesign ==
    /\ disk # Idle /\ disk.mode = "design"
    /\ \E r \in {save_robot_design(disk.robot_cfg)} :
          disk' = [disk EXCEPT !.robot_cfg = r.robot_cfg, !.robot_json = Some(r.file),
                               !.saves = Len(disk.loaded) + 1, !.last = "save"]
    /\ UNCHANGED <<sim, twin, snap, op, ctl, heap, wheel, world>>

\* robot_cfg = load_robot_design(path)
LoadRobotDesign ==
    /\ disk # Idle /\ disk.mode = "design"
    /\ disk.robot_json # None /\ Len(disk.loaded) < MaxLoads
    /\ \E r \in {load_robot_design(disk.robot_json[1])} :
          disk' = [disk EXCEPT !.robot_cfg = r, !.loaded = Append(disk.loaded, r),
                               !.last = "load"]
    /\ UNCHANGED <<sim, twin, snap, op, ctl, heap, wheel, world>>

\* save_scenario(path, world_cfg, robot_cfg)
SaveScenario ==
    /\ disk # Idle /\ disk.mode = "scenario"
    /\ \E r \in {save_scenario(disk.world_cfg, disk.robot_cfg)} :
          disk' = [disk EXCEPT !.robot_cfg = r.robot_cfg, !.world_cfg = r.world_cfg,
                               !.robot_json = Some(r.robot_json),
                               !.world_json = Some(r.world_json),
                               !.saves = Len(disk.loaded) + 1, !.last = "save"]
    /\ UNCHANGED <<sim, twin, snap, op, ctl, heap, wheel, world>>

\* result = load_scenario(path); world_cfg, robot_cfg = result
LoadScenario ==
    /\ disk # Idle /\ disk.mode = "scenario"
    /\ disk.robot_json # None /\ Len(disk.loaded) < MaxLoads
    /\ \E r \in {load_scenario(disk.world_json[1], disk.robot_json[1])} :
          disk' = [disk EXCEPT !.robot_cfg = r.robots[1].config, !.world_cfg = r.world,
                               !.loaded = Append(disk.loaded, r.robots[1].config),
                               !.last = "load"]
    /\ UNCHANGED <<sim, twin, snap, op, ctl, heap, wheel, world>>

NextDesign ==
    \/ NewDesign
    \/ SaveRobotDesign
    \/ LoadRobotDesign
    \/ SaveScenario
    \/ LoadScenario

SpecDesign == InitDesign /\ [][NextDesign]_vars

\* a list of bodies as names, vertex lists and poses, in the order of the names
bodies_by_name(bodies) ==
    sorted_by_name([i \in 1..Len(bodies.items) |->
        [name   |-> bodies.items[i].name,
         points |-> [k \in 1..Len(bodies.items[i].points.items) |->
                        bodies.items[i].points.items[k].items],
         pose   |-> bodies.items[i].pose.items]])

\* a list of actuators or sensors as names, parent bodies and mount poses, in
\* the order of the names
mounts_by_name(mounts) ==
    sorted_by_name([i \in 1..Len(mounts.items) |->
        [name |-> mounts.items[i].name, body |-> mounts.items[i].body,
         mount_pose |-> mounts.items[i].mount_pose.items]])

\* the same actuator and sensor mounts and the same spawn pose
same_mounts(a, b) ==
    /\ mounts_by_name(a.actuators) = mounts_by_name(b.actuators)
    /\ mounts_by_name(a.sensors) = mounts_by_name(b.sensors)
    /\ a.spawn_pose.items = b.spawn_pose.items

\* what was loaded after the configuration loaded before it had been saved
\* again is what was loaded before
same_again ==
    \A i \in 2..Len(disk.loaded) : disk.loaded[i] = disk.loaded[i - 1]

\* C17 as stated: a configuration that was saved and loaded back has the same
\* bodies (names, vertex lists, poses), the same actuator and sensor mounts
\* and the same spawn pose as the one saved, up to ordering by name, and
\* saving and loading it again gives the same result.
C17_RoundTrip ==
    disk # Idle =>
        /\ \A i \in 1..Len(disk.loaded) :
              /\ bodies_by_name(disk.loaded[i].bodies) = bodies_by_name(disk.original.robot.bodies)
              /\ same_mounts(disk.loaded[i], disk.original.robot)
        /\ same_again

\* C17, amended: the same holds for a configuration that has at least one
\* body; a configuration without bodies comes back with the one default body
\* "body" and otherwise the same, and a scenario's terrain comes back as saved.
C17_RoundTripOfBodies ==
    disk # Idle =>
        /\ \A i \in 1..Len(disk.loaded) :
              /\ IF disk.original.robot.bodies.items # <<>>
                 THEN bodies_by_name(disk.loaded[i].bodies)
                          = bodies_by_name(disk.original.robot.bodies)
                 ELSE /\ Len(disk.loaded[i].bodies.items) = 1
                      /\ disk.loaded[i].bodies.items[1].name = "body"
              /\ same_mounts(disk.loaded[i], disk.original.robot)
        /\ same_again
        /\ disk.last = "load" /\ disk.mode = "scenario" =>
              bodies_by_name([items |-> [i \in 1..Len(disk.world_cfg.terrain.items) |->
                                            disk.world_cfg.terrain.items[i].body]])
                = bodies_by_name([items |-> [i \in 1..Len(disk.original.world.terrain.items) |->
                                            disk.original.world.terrain.items[i].body]])

\* a scenario whose robot was built with its bodies and its actuators out of
\* order has been saved, loaded, saved again and loaded again
C17_SavedTwice ==
    /\ disk # Idle /\ disk.mode = "scenario" /\ disk.last = "load"
    /\ Len(disk.loaded) = 2 /\ disk.saves = 2
    /\ disk.original.robot.spawn_pose.items[1] = 500000
    /\ Len(disk.original.robot.bodies.items) = 2
    /\ disk.original.robot.bodies.items[1].name = "base"
    /\ disk.original.robot.bodies.items[2].name = "arm"
    /\ disk.loaded[2].bodies.items[1].name = "arm"
    /\ Len(disk.original.robot.actuators.items) = 2
    /\ disk.original.robot.actuators.items[1].name = "right"
    /\ disk.original.robot.actuators.items[2].name = "left"
    /\ disk.loaded[2].actuators.items[1].name = "left"
    /\ disk.loaded[2].spawn_pose = PyTuple(<<500000, 0, 0>>)
    /\ disk.world_cfg.terrain.items # <<>>
(***************************************************************************)
(* Mounted components and their parents: MountedComponent.attach / detach  *)
(* (middle_level_library/base.py), SimObject.register_component /          *)
(* unregister_component / on_removed_from_world (entities.py) and          *)
(* World.add_object / remove_object (world.py).  Objects are told apart by *)
(* identity: a SimObject is a number, a component its name.  The state w   *)
(* has the World's _objects dict (name -> SimObject), each SimObject's     *)
(* _components list and each component's parent.                           *)
(***************************************************************************)
\* the SimObjects, and the name of each: the third is a second "base"
ObjectNames == <<"base", "arm", "base">>

Components == {"left_motor", "imu", "distance"}

\* SimObject.register_component
register_component(w, object, component) ==
    IF component \notin Range(w.components[object])
    THEN [w EXCEPT !.components[object] = Append(w.components[object], component)]
    ELSE w

\* SimObject.unregister_component: list.remove takes out the first occurrence
unregister_component(w, object, component) ==
    IF component \in Range(w.components[object])
    THEN LET list == w.components[object]
             i == CHOOSE k \in 1..Len(list) :
                     list[k] = component /\ \A j \in 1..(k - 1) : list[j] # component
         IN [w EXCEPT !.components[object] = SubSeq(list, 1, i - 1) \o SubSeq(list, i + 1, Len(list))]
    ELSE w

\* a detach that forgets the parent without unregistering from it
component_detach_forgetful(w, component) == [w EXCEPT !.parent[component] = None]

\* MountedComponent.detach
component_detach(w, component) ==
    LET left(u) == [u EXCEPT !.parent[component] = None]
    IN IF w.parent[component] # None
       THEN left(unregister_component(w, w.parent[component][1], component))
       ELSE left(w)

\* MountedComponent.attach
component_attach(w, component, object) ==
    IF w.parent[component] = Some(object) THEN w
    ELSE LET mounted(u) == register_component([u EXCEPT !.parent[component] = Some(object)],
                                              object, component)
         IN mounted(component_detach(w, component))

\* SimObject.on_removed_from_world: detach() of every component in
\* tuple(self._components), the list as it was when the loop began
RECURSIVE detach_each(_, _)
detach_each(w, components) ==
    IF components = <<>> THEN w
    ELSE detach_each(component_detach(w, Head(components)), Tail(components))

on_removed_from_world(w, object) == detach_each(w, w.components[object])

\* World.remove_object(name); a name the world does not have raises KeyError
remove_object(w, name) ==
    IF ~DictHas(w.objects, name) THEN [w |-> w, raised |-> TRUE]
    ELSE LET removed(u, object) == [w |-> on_removed_from_world(u, object), raised |-> FALSE]
         IN removed([w EXCEPT !.objects = DictPop(w.objects, name)],
                    DictGet(w.objects, name, 0))

\* World.add_object(obj, overwrite=...)
add_object(w, object, overwrite) ==
    LET name == ObjectNames[object]
        put(u) == [w |-> [u EXCEPT !.objects = DictPut(u.objects, name, object)],
                   raised |-> FALSE]
    IN IF DictHas(w.objects, name) /\ ~overwrite THEN [w |-> w, raised |-> TRUE]
       ELSE IF DictHas(w.objects, name)
       THEN put(on_removed_from_world(w, DictGet(w.objects, name, 0)))
       ELSE put(w)

\* World() and three SimObjects and three components, nothing added or attached
InitWorld ==
    /\ world = [objects |-> <<>>,
                components |-> [object \in 1..Len(ObjectNames) |-> <<>>],
                parent |-> [component \in Components |-> None],
                last |-> [call |-> "World"]]
    /\ sim = Idle /\ twin = Idle /\ snap = Idle /\ op = Idle /\ ctl = Idle /\ heap = 0
    /\ wheel = Idle /\ disk = Idle

\* component.attach(object)
Attach ==
    /\ \E component \in Components, object \in 1..Len(ObjectNames) :
          world' = [component_attach(world, component, object) EXCEPT
                       !.last = [call |-> "attach", component |-> component, object |-> object,
                                 from |-> world.parent[component]]]
    /\ UNCHANGED <<sim, twin, snap, op, ctl, heap, wheel, disk>>

\* component.detach()
Detach ==
    /\ \E component \in Components :
          world' = [component_detach(world, component) EXCEPT
                       !.last = [call |-> "detach", component |-> component]]
    /\ UNCHANGED <<sim, twin, snap, op, ctl, heap, wheel, disk>>

\* world.add_object(object, overwrite=overwrite)
AddObject ==
    /\ \E object \in 1..Len(ObjectNames), overwrite \in BOOLEAN :
          \E r \in {add_object(world, object, overwrite)} :
              world' = [r.w EXCEPT !.last = [call |-> "add_object", object |-> object,
                                             raised |-> r.raised]]
    /\ UNCHANGED <<sim, twin, snap, op, ctl, heap, wheel, disk>>

\* world.remove_object(name)
RemoveObject ==
    /\ \E name \in Range(ObjectNames) :
          \E r \in {remove_object(world, name)} :
              world' = [r.w EXCEPT !.last = [call |-> "remove_object", name |-> name,
                                             raised |-> r.raised]]
    /\ UNCHANGED <<sim, twin, snap, op, ctl, heap, wheel, disk>>

NextWorld == Attach \/ Detach \/ AddObject \/ RemoveObject

SpecWorld == InitWorld /\ [][NextWorld]_vars

\* how many times a component is in an object's component list
registered(w, object, component) ==
    Cardinality({k \in 1..Len(w.components[object]) : w.components[object][k] = component})

\* C18: after any sequence of attach, detach and object removal, a component
\* has parent b if and only if it is in b's component list, and it is there
\* exactly once (so N distinct components attached to b are N registered
\* components); attaching to the parent it has changes nothing, and attaching
\* to a new parent takes the component out of the old parent's list.
C18_ParentIffRegistered ==
    /\ [](\A component \in Components, object \in 1..Len(ObjectNames) :
            /\ registered(world, object, component)
                  = IF world.parent[component] = Some(object) THEN 1 ELSE 0
            /\ Len(world.components[object])
                  = Cardinality({c \in Components : world.parent[c] = Some(object)}))
    /\ [][world'.last.call = "attach" =>
            LET component == world'.last.component
                object == world'.last.object
            IN /\ world.parent[component] = Some(object) =>
                     /\ world'.components = world.components
                     /\ world'.parent = world.parent
               /\ world.parent[component] \notin {None, Some(object)} =>
                     /\ registered(world', world.parent[component][1], component) = 0
                     /\ registered(world', object, component) = 1
                     /\ world'.parent[component] = Some(object)]_vars

\* all three components are on the second "base", which took the name from
\* the first by add_object(overwrite=True); the left motor came last, from
\* the arm
C18_ThreeOnOne ==
    /\ world.last.call = "attach" /\ world.last.component = "left_motor"
    /\ world.last.object = 3 /\ world.last.from = Some(2)
    /\ Len(world.components[3]) = 3
    /\ world.components[3][3] = "left_motor"
    /\ DictGet(world.objects, "base", 0) = 3
    /\ DictHas(world.objects, "arm")
(***************************************************************************)
(* Speed limits under gravity and pending forces: a robot loaded with      *)
(* top_down=False, so that the world's gravity acts, and forces applied to *)
(* its body between ticks.                                                 *)
(***************************************************************************)
\* Simulator.load(..., top_down=False): gravity is world_cfg.gravity
load_side_view(s, scene, artifacts, entropy, objects) ==
    LET viewed(L) == [L EXCEPT !.sim.gravity = scene.gravity]
    IN viewed(load(s, scene, artifacts, entropy, objects))

\* one rover in a world with gravity along x
Drop(hz, gravity) ==
    [Scene("drop", Some(3), hz, <<>>, <<ScenarioRobot("", Rover("ctrl_a"), 0)>>)
        EXCEPT !.gravity = gravity]

FallScenes == {Drop(hz, gravity) : hz \in {2, 10}, gravity \in {0, 9810}}

MaxFallTicks == 5

\* sim.load(path, world_cfg, robots=robots, top_down=False)
LoadSideView ==
    \E scene \in FallScenes : \E artifacts \in [modules_of(scene) -> {"legacy"}] :
        /\ sim.scenario_path = None
        /\ \E L \in {load_side_view(sim, scene, artifacts, 1, heap)} :
              /\ sim' = L.sim
              /\ heap' = L.heap
              /\ op' = Call("load", L.raised,
                            [scene |-> scene, artifacts |-> artifacts, raised |-> L.raised])
        /\ ctl' = NoCalls
        /\ UNCHANGED <<twin, snap, wheel, disk, world>>

\* sim.bodies[name].apply_force((force, 0.0)) before a tick, at most once per
\* tick: 400 N either way
ApplyForce ==
    \E i \in 1..Len(sim.bodies), force \in {400000000, -400000000} :
        /\ sim.scenario_path # None /\ op.loaded.raised = None
        /\ sim.step_index < MaxFallTicks
        /\ sim.bodies[i].v.force = 0
        /\ sim' = [sim EXCEPT !.bodies[i].v = apply_force(sim.bodies[i].v, force)]
        /\ op' = Call("apply_force", None, op.loaded)
        /\ UNCHANGED <<twin, snap, ctl, heap, wheel, disk, world>>

Fall == StepWith(MaxFallTicks, {Pass})

NextFall == LoadSideView \/ ApplyForce \/ Fall

SpecFall == Init /\ [][NextFall]_vars

\* C19: after every step(), whatever the gravity and the pending forces,
\* every movable body's linear speed is at most max_linear_speed and the
\* magnitude of its angular velocity is at most max_angular_speed.
C19_SpeedBounded ==
    op.kind = "step" =>
        \A i \in 1..Len(sim.bodies) :
            sim.bodies[i].v.can_move =>
                /\ Abs(sim.bodies[i].v.v) <= max_linear_speed
                /\ Abs(sim.bodies[i].v.w) <= max_angular_speed

\* free fall at 9.81 m/s^2 and 0.5 s per tick: the fifth tick clamps the
\* speed to 15 m/s and then adds the 4.905 m/s that gravity gives in a tick
C19_FallingFaster ==
    /\ op.kind = "step" /\ sim.hz = 2 /\ sim.gravity = 9810 /\ sim.step_index = 5
    /\ sim.bodies[1].v.v = max_linear_speed + 4905
    /\ sim.bodies[1].v.force = 0
    /\ "clamped linear speed" \in Range(ctl.flagged)
(***************************************************************************)
(* The per-tick translation limit: one rover (limit 0.5 m) or two rovers   *)
(* (limit 0.25 m) driven at 0.5 s and 0.25 s per tick.                     *)
(***************************************************************************)
Single(hz) ==
    Scene("single", Some(5), hz, <<Wall>>, <<ScenarioRobot("", Rover("ctrl_a"), 300000)>>)

StrideScenes == {Single(hz) : hz \in {2, 4}} \cup {Pair(hz, 400000) : hz \in {2, 4}}

MaxStrideTicks == 4

LoadStride == LoadScene(StrideScenes, {"legacy"})

Stride == StepWith(MaxStrideTicks, {Drive(1000), Pass})

NextStride == LoadStride \/ Stride

SpecStride == Init /\ [][NextStride]_vars

\* Simulator.step() up to, and without, _check_step_sanity
step_unchecked(s, behaviour) ==
    solve_contacts(
      solve_joints(
        integrate_bodies(
          tick_controller(
            update_sensors(begin_step(s)), behaviour))))

\* some movable body of U has moved further than the limit from where it is in s
overshoot(s, U) ==
    \E i \in 1..Len(s.bodies) :
        /\ U.sim.bodies[i].v.can_move
        /\ Abs(U.sim.bodies[i].v.x - s.bodies[i].v.x) > s.max_step_translation

\* C20: over a step() with max_step_translation > 0 (0.5 m after a load of one
\* robot, 0.25 m after a load of more), no movable body ends further than
\* max_step_translation from where it began the tick, and on every tick on
\* which a move had to be shortened a physics warning is flagged.
C20_StrideWithinLimit ==
    [][op'.kind = "step" /\ sim.max_step_translation > 0 =>
          /\ sim.max_step_translation = IF Len(sim.robot_ids) > 1 THEN 250000 ELSE 500000
          /\ \A i \in 1..Len(sim.bodies) :
                sim'.bodies[i].v.can_move =>
                    Abs(sim'.bodies[i].v.x - sim.bodies[i].v.x) <= sim.max_step_translation
          /\ \A behaviour \in [invoked(sim) -> {Drive(1000), Pass}] :
                \A U \in {step_unchecked(sim, behaviour)} :
                    U.calls = ctl'.calls /\ overshoot(sim, U) =>
                        /\ "large step clamped" \in Range(ctl'.flagged)
                        /\ sim'.last_physics_warning = Some("large step clamped")]_vars

\* the third tick of a single rover at 0.5 s per tick was shortened to 0.5 m
\* and flagged
C20_ShortenedStride ==
    /\ op.kind = "step" /\ sim.hz = 2 /\ sim.step_index = 3
    /\ Len(sim.robot_ids) = 1 /\ sim.max_step_translation = 500000
    /\ Len(ctl.calls) = 1 /\ ctl.calls[1].did = Drive(1000)
    /\ sim.last_physics_warning = Some("large step clamped")
    /\ sim.bodies[2].k = "base" /\ sim.bodies[2].v.x > 600000
(***************************************************************************)
(* Traction reports from tick to tick (the rovers of the translation      *)
(* limit section, each controller driving or doing nothing on a tick).     *)
(***************************************************************************)
\* C21: after each step, the TractionReport a motor exposes was computed
\* during that tick: its step field is that tick's index, never an earlier one.
C21_ReportOfTheTick ==
    op.kind = "step" =>
        \A i \in 1..Len(sim.motors) :
            sim.motors[i].v.last_report # None =>
                sim.motors[i].v.last_report[1].step = Some(sim.step_index - 1)

\* after the second tick, on which no controller commanded a motor, a motor
\* still exposes the report of the first tick
C21_ReportLeftOver ==
    /\ op.kind = "step" /\ sim.step_index = 2
    /\ Len(ctl.calls) >= 1
    /\ \A c \in 1..Len(ctl.calls) : ctl.calls[c].did = Pass
    /\ \E i \in 1..Len(sim.motors) :
          /\ sim.motors[i].v.last_report # None
          /\ sim.motors[i].v.last_report[1].step = Some(0)
          /\ sim.motors[i].v.last_report[1].applied_longitudinal_impulse # 0
(***************************************************************************)
(* Repositioning, resetting and restoring robots that tow a trailer on a   *)
(* joint; snap holds the snapshot taken, the number of calls made, the     *)
(* arguments of the last reposition or reset, for each robot the pose last *)
(* given as its spawn, and whether a pose was made the spawn under the id  *)
(* of no robot.                                                            *)
(***************************************************************************)
Hauler == Scene("hauler", Some(5), 120, <<Wall>>, <<ScenarioRobot("", Tractor("ctrl_a"), 300000)>>)

Convoy ==
    Scene("convoy", Some(5), 120, <<Wall>>,
          <<ScenarioRobot("r1", Tractor("ctrl_a"), 600000),
            ScenarioRobot("r2", Tractor("ctrl_b"), 200000)>>)

PoseScenes == {Hauler, Convoy}

MaxPoseCalls == 3

Places == {-500000}

NoPose == [taken |-> None, calls |-> 0, last |-> None, spawn |-> <<>>, stray |-> FALSE]

InitPose ==
    /\ sim = NewSimulator(1)
    /\ op = Call("new", None, NotLoaded)
    /\ ctl = NoCalls
    /\ heap = 0
    /\ snap = NoPose
    /\ twin = Idle /\ wheel = Idle /\ disk = Idle /\ world = Idle

LoadPose ==
    /\ LoadScene(PoseScenes, {"legacy"})
    /\ snap' = snap

PoseReady == sim.scenario_path # None /\ snap.calls < MaxPoseCalls

\* sim.step()
StepPose ==
    \E behaviour \in [invoked(sim) -> {Drive(1000), Pass}] :
        /\ PoseReady
        /\ \E T \in {step(sim, behaviour)} :
              /\ sim' = T.sim
              /\ ctl' = [calls |-> T.calls, flagged |-> T.flagged, phases |-> T.phases]
        /\ op' = Call("step", None, op.loaded)
        /\ snap' = [snap EXCEPT !.calls = @ + 1]
        /\ UNCHANGED <<twin, heap, wheel, disk, world>>

\* the robot ids a caller passes: None, the loaded ids, and one of no robot
Callers == {None, Some("ghost")} \cup {Some(rid) : rid \in Range(sim.robot_ids)}

\* sim.reposition_robot(spawn_pose, zero_velocity=True, set_as_spawn=...,
\* robot_id=...)
RepositionRobot ==
    \E spawn_pose \in Places, set_as_spawn \in BOOLEAN, robot_id \in Callers :
        /\ PoseReady
        /\ sim' = reposition_robot(sim, spawn_pose, TRUE, set_as_spawn, robot_id)
        /\ op' = Call("reposition", None, op.loaded)
        /\ snap' = [snap EXCEPT
                       !.calls = @ + 1,
                       !.last = Some([robot_id |-> robot_id, spawn_pose |-> spawn_pose,
                                      set_as_spawn |-> set_as_spawn]),
                       !.spawn = IF set_as_spawn /\ selected_robot(sim, robot_id) # None
                                    /\ selected_robot(sim, robot_id)[1] \in Range(sim.robot_ids)
                                 THEN DictPut(snap.spawn, selected_robot(sim, robot_id)[1],
                                              spawn_pose)
                                 ELSE @,
                       !.stray = @ \/ (set_as_spawn /\ robot_id = Some("ghost"))]
        /\ UNCHANGED <<twin, ctl, heap, wheel, disk, world>>

\* sim.reset_to_spawn(robot_id)
ResetToSpawn ==
    \E robot_id \in Callers :
        /\ PoseReady
        /\ sim' = reset_to_spawn(sim, robot_id)
        /\ op' = Call("reset", None, op.loaded)
        /\ snap' = [snap EXCEPT
                       !.calls = @ + 1,
                       !.last = Some([robot_id |-> robot_id, spawn_pose |-> 0,
                                      set_as_spawn |-> FALSE])]
        /\ UNCHANGED <<twin, ctl, heap, wheel, disk, world>>

\* s = sim.snapshot()
SnapshotPose ==
    /\ PoseReady
    /\ snap.taken = None
    /\ snap' = [snap EXCEPT !.taken = Some(snapshot(sim))]
    /\ op' = Call("snapshot", None, op.loaded)
    /\ UNCHANGED <<sim, twin, ctl, heap, wheel, disk, world>>

\* sim.apply_snapshot(s)
ApplyPose ==
    /\ PoseReady
    /\ snap.taken # None
    /\ op.kind # "apply"
    /\ sim' = apply_snapshot(sim, snap.taken[1])
    /\ snap' = [snap EXCEPT !.calls = @ + 1]
    /\ op' = Call("apply", None, op.loaded)
    /\ UNCHANGED <<twin, ctl, heap, wheel, disk, world>>

NextPose ==
    \/ LoadPose \/ StepPose \/ RepositionRobot \/ ResetToSpawn
    \/ SnapshotPose \/ ApplyPose

SpecPose == InitPose /\ [][NextPose]_vars

\* Simulator.step() up to, and without, _solve_joints
before_joints(s, behaviour) ==
    integrate_bodies(tick_controller(update_sensors(begin_step(s)), behaviour))

\* the accumulated multipliers of the joints, in the order of sim.joints
multipliers(s) == [i \in 1..Len(s.joints) |-> s.joints[i].lambda_accum]

C22_ClearedByReset ==
    /\ op.kind = "reset" /\ snap.calls = 2 /\ sim.step_index = 1
    /\ Len(sim.joints) = 2
    /\ \A i \in 1..Len(sim.joints) : sim.joints[i].lambda_accum = 0
\* the names of the bodies of robot r: those of its prepared config, none
\* when r is not the id of a loaded robot
bodies_of(s, r) ==
    IF ~DictHas(s.robot_configs, r) THEN {}
    ELSE LET cfg == DictGet(s.robot_configs, r, <<>>)
         IN {cfg.bodies[i].name : i \in 1..Len(cfg.bodies)}

\* C24: reposition_robot(pose, robot_id=r) changes the pose and velocity of
\* no body that does not belong to robot r, and moves no body at all when r
\* is not the id of a loaded robot.
C24_OnlySelectedMoves ==
    [][op'.kind = "reposition" /\ snap'.last[1].robot_id # None =>
          \A i \in 1..Len(sim.bodies) :
              sim.bodies[i].k \notin bodies_of(sim, snap'.last[1].robot_id[1]) =>
                  kinematics(sim'.bodies[i].v) = kinematics(sim.bodies[i].v)]_vars

\* the same for the ids of loaded robots only
C24_LoadedRobotOnly ==
    [][op'.kind = "reposition" /\ snap'.last[1].robot_id # None
          /\ DictHas(sim.robot_configs, snap'.last[1].robot_id[1]) =>
          \A i \in 1..Len(sim.bodies) :
              sim.bodies[i].k \notin bodies_of(sim, snap'.last[1].robot_id[1]) =>
                  kinematics(sim'.bodies[i].v) = kinematics(sim.bodies[i].v)]_vars

\* a reposition to -0.5 m with the id of no robot, straight after the load
\* of two robots, moved the first robot's base and trailer
C24_GhostMovedFirst ==
    /\ op.kind = "reposition" /\ snap.calls = 1
    /\ snap.last[1].robot_id = Some("ghost") /\ sim.robot_ids = <<"r1", "r2">>
    /\ DictGet(sim.bodies, "r1/base", <<>>).x = -500000
    /\ DictGet(sim.bodies, "r1/trailer", <<>>).x = -650000
    /\ DictGet(sim.bodies, "r2/base", <<>>).x = 200000

\* the number, in the scene loaded, of the robot whose id is r
robot_number(r) ==
    CHOOSE idx \in 1..Len(op.loaded.scene.robots) :
        robot_id_of(op.loaded.scene.robots[idx], idx) = r

\* the spawn pose of robot r: the pose last made its spawn, or the one the
\* scene loaded gives it
spawn_of(r) ==
    IF DictHas(snap.spawn, r) THEN DictGet(snap.spawn, r, 0)
    ELSE op.loaded.scene.robots[robot_number(r)].spawn_pose

\* every body of robot r is at its offset from the given pose, at rest
at_spawn(s, r, pose) ==
    LET bodies == op.loaded.scene.robots[robot_number(r)].config.bodies
        prefix == IF Len(op.loaded.scene.robots) > 1 THEN r \o "/" ELSE ""
    IN \A j \in 1..Len(bodies) :
           /\ DictHas(s.bodies, prefix \o bodies[j].name)
           /\ kinematics(DictGet(s.bodies, prefix \o bodies[j].name, <<>>))
                  = <<bodies[j].x + pose, 0, 0, 0>>

\* C25: reset_to_spawn(r) puts every body of robot r at its load-time pose
\* (body offset plus spawn pose) with zero linear and angular velocity,
\* whatever steps and commands came before; after a reposition of r to p with
\* set_as_spawn=True it puts the robot at p instead, and a reposition with
\* set_as_spawn=False leaves the spawn as it was.  (Poses made the spawn
\* under the id of no robot are left aside.)
C25_BackAtSpawn ==
    op.kind = "reset" /\ ~snap.stray =>
        \A r \in Range(sim.robot_ids) :
            selected_robot(sim, snap.last[1].robot_id) = Some(r) => at_spawn(sim, r, spawn_of(r))

\* the second robot was given a new spawn, drove for a tick and was reset to
\* the new spawn
C25_ResetToNewSpawn ==
    /\ op.kind = "reset" /\ snap.calls = 3 /\ sim.step_index = 1 /\ ~snap.stray
    /\ snap.last[1].robot_id = Some("r2")
    /\ snap.spawn = <<[k |-> "r2", v |-> -500000]>>
    /\ \E c \in 1..Len(ctl.calls) : ctl.calls[c].robot_id = "r2" /\ ctl.calls[c].did = Drive(1000)
    /\ at_spawn(sim, "r2", -500000)
    /\ ~at_spawn(sim, "r1", 600000)

(***************************************************************************)
(* The controller's state in snapshots: snap holds the Controller object   *)
(* of the one robot (whether its class defines get_state and set_state,    *)
(* whether they raise an Exception, the state get_state returns, the       *)
(* arguments set_state was called with), the snapshot taken, the exception *)
(* that escaped the last call and the number of calls made.                *)
(***************************************************************************)
\* Python values a get_state returns: dicts by their number of entries, ints
PyDict(entries) == [type |-> "dict", value |-> entries]

PyInt(n) == [type |-> "int", value |-> n]

\* bool(value)
truthy(value) == value.value # 0

\* what get_state returns (None is Python's None)
StateValues == {None, Some(PyDict(0)), Some(PyDict(1)), Some(PyInt(0)), Some(PyInt(3))}

MaxStateCalls == 4

InitState ==
    /\ sim = NewSimulator(1)
    /\ op = Call("new", None, NotLoaded)
    /\ ctl = NoCalls
    /\ heap = 0
    /\ snap = [controller |-> None, taken |-> None, raised |-> None, calls |-> 0]
    /\ twin = Idle /\ wheel = Idle /\ disk = Idle /\ world = Idle

\* the controller module is written: a class with or without get_state and
\* set_state, each raising or not
WriteController ==
    \E has_get \in BOOLEAN, has_set \in BOOLEAN, get_raises \in BOOLEAN, set_raises \in BOOLEAN :
        /\ sim.scenario_path = None /\ snap.controller = None
        /\ has_get \/ ~get_raises
        /\ has_set \/ ~set_raises
        /\ snap' = [snap EXCEPT !.controller =
                       Some([has_get_state |-> has_get, has_set_state |-> has_set,
                             get_raises |-> get_raises, set_raises |-> set_raises,
                             state |-> None, got |-> <<>>])]
        /\ UNCHANGED <<sim, op, ctl, twin, heap, wheel, disk, world>>

LoadState ==
    /\ snap.controller # None
    /\ LoadScene({Single(120)}, {"legacy"})
    /\ snap' = snap

\* sim.step(): the controller's step leaves its state at any of the values
StepState ==
    \E state \in StateValues :
        /\ sim.scenario_path # None
        /\ snap.calls < MaxStateCalls
        /\ \E T \in {step(sim, [rid \in invoked(sim) |-> Pass])} :
              /\ sim' = T.sim
              /\ ctl' = [calls |-> T.calls, flagged |-> T.flagged, phases |-> T.phases]
        /\ op' = Call("step", None, op.loaded)
        /\ snap' = [snap EXCEPT !.controller[1].state = state, !.raised = None,
                             !.calls = @ + 1]
        /\ UNCHANGED <<twin, heap, wheel, disk, world>>

\* ctrl_state of Simulator.snapshot(): get_state() of the primary controller
\* when it has one, None when that raises an Exception
snapshot_controller_state(s, controller) ==
    IF s.controller_instance # None /\ controller.has_get_state
    THEN IF controller.get_raises THEN None ELSE controller.state
    ELSE None

\* the end of Simulator.apply_snapshot(snap): the controller after the
\* set_state call, if one is made; an Exception it raises is passed over
apply_controller_state(s, controller, controller_state) ==
    IF /\ s.controller_instance # None
       /\ controller_state # None /\ truthy(controller_state[1])
       /\ controller.has_set_state
    THEN [controller EXCEPT !.got = Append(@, controller_state[1]),
                            !.state = IF controller.set_raises THEN @ ELSE controller_state]
    ELSE controller

\* s = sim.snapshot()
SnapshotState ==
    /\ sim.scenario_path # None
    /\ snap.calls < MaxStateCalls
    /\ op.kind # "snapshot"
    /\ snap' = [snap EXCEPT
                   !.taken = Some([snapshot(sim) EXCEPT !.controller_state =
                                       snapshot_controller_state(sim, snap.controller[1])]),
                   !.raised = None, !.calls = @ + 1]
    /\ op' = Call("snapshot", None, op.loaded)
    /\ UNCHANGED <<sim, twin, ctl, heap, wheel, disk, world>>

\* sim.apply_snapshot(s)
ApplyState ==
    /\ snap.taken # None
    /\ snap.calls < MaxStateCalls
    /\ op.kind # "apply"
    /\ sim' = apply_snapshot(sim, snap.taken[1])
    /\ snap' = [snap EXCEPT
                   !.controller[1] = apply_controller_state(
                                         sim, @, snap.taken[1].controller_state),
                   !.raised = None, !.calls = @ + 1]
    /\ op' = Call("apply", None, op.loaded)
    /\ UNCHANGED <<twin, ctl, heap, wheel, disk, world>>

NextState == WriteController \/ LoadState \/ StepState \/ SnapshotState \/ ApplyState

SpecState == InitState /\ [][NextState]_vars

\* C23: apply_snapshot(s) calls the controller's set_state with
\* s.controller_state whenever that is not null and the controller defines
\* set_state, whatever value get_state returned, and no exception of
\* get_state or set_state escapes snapshot or apply_snapshot.
C23_StateForwarded ==
    [][/\ op'.kind \in {"snapshot", "apply"} => snap'.raised = None
       /\ op'.kind = "apply" /\ snap.taken[1].controller_state # None
             /\ snap.controller[1].has_set_state
          => snap'.controller[1].got =
                 Append(snap.controller[1].got, snap.taken[1].controller_state[1])]_vars

\* a controller whose get_state returned an empty dict and whose set_state
\* was not called when the snapshot was applied
C23_EmptyStateDropped ==
    /\ op.kind = "apply"
    /\ snap.controller[1].has_get_state /\ snap.controller[1].has_set_state
    /\ ~snap.controller[1].get_raises /\ ~snap.controller[1].set_raises
    /\ snap.taken[1].controller_state = Some(PyDict(0))
    /\ snap.controller[1].got = <<>>
(***************************************************************************)
(* The robot a controller takes itself to be (the loads of the load        *)
(* section: one or two robots, each controller artifact in any state).     *)
(***************************************************************************)
\* C26: after a load, the controller instance loaded for robot r has
\* robot_id r, also when its module was generated by build_controller_code.
C26_OwnRobotId ==
    op.kind = "load" /\ op.raised = None =>
        \A i \in 1..Len(sim.controller_instances) :
            sim.controller_instances[i].v # None =>
                sim.controller_instances[i].v[1].robot_id = sim.controller_instances[i].k

\* the same for controllers whose module is a plain Python file
C26_OwnRobotIdLegacy ==
    op.kind = "load" /\ op.raised = None =>
        \A i \in 1..Len(sim.controller_instances) :
            /\ sim.controller_instances[i].v # None
            /\ op.loaded.artifacts[sim.controller_instances[i].v[1].module] = "legacy"
            => sim.controller_instances[i].v[1].robot_id = sim.controller_instances[i].k

\* two robots loaded, the second with a generated controller that takes
\* itself to be the first robot
C26_SecondTakenForFirst ==
    /\ op.kind = "load" /\ op.raised = None
    /\ sim.robot_ids = <<"r1", "r2">>
    /\ op.loaded.artifacts["ctrl_b"] = "generated"
    /\ sim.last_controller_errors = <<>>
    /\ DictGet(sim.controller_instances, "r2", None) # None
    /\ DictGet(sim.controller_instances, "r2", None)[1].robot_id = "r1"
(***************************************************************************)
(* Recorded controller errors over loads, ticks, reloads and clears: the   *)
(* scenes of the main specification, each controller module loading or     *)
(* failing to import, on a simulator that is loaded again and again.       *)
(***************************************************************************)
ErrorArtifacts == {"legacy", "import_raises"}

\* sim.load(path, world_cfg, robots=robots) on a simulator that may have been
\* loaded and stepped before
LoadOver(scenes, states) ==
    \E scene \in scenes : \E artifacts \in [modules_of(scene) -> states] :
        /\ heap < MaxInstances
        /\ \E L \in {load(sim, scene, artifacts, 1, heap)} :
              /\ sim' = L.sim
              /\ heap' = L.heap
              /\ op' = Call("load", L.raised,
                            [scene |-> scene, artifacts |-> artifacts, raised |-> L.raised])
        /\ ctl' = NoCalls
        /\ UNCHANGED <<twin, snap, wheel, disk, world>>

LoadErrors == LoadOver(Scenes, ErrorArtifacts)

NextErrors == LoadErrors \/ Step \/ ClearControllerError \/ ReloadController

SpecErrors == Init /\ [][NextErrors]_vars

\* the keys of d that are in e as well come in e in the order they have in d,
\* and the keys e has more come after them
order_kept(d, e) ==
    /\ \A i, j \in 1..Len(d) :
           i < j /\ DictHas(e, d[i].k) /\ DictHas(e, d[j].k) =>
               DictIndex(e, d[i].k) < DictIndex(e, d[j].k)
    /\ \A i, j \in 1..Len(e) :
           DictHas(d, e[i].k) /\ ~DictHas(d, e[j].k) => i < j

\* C27: in every reachable state last_controller_error is null exactly when
\* last_controller_errors is empty, and otherwise is the message of the first
\* entry of last_controller_errors, which is the entry recorded earliest of
\* those still present: entries keep their order from call to call (a load
\* starts from no entries) and a new entry comes last.
C27_ScalarOfEarliest ==
    /\ [](/\ sim.last_controller_error = None <=> sim.last_controller_errors = <<>>
          /\ sim.last_controller_errors # <<>> =>
                sim.last_controller_error = Some(sim.last_controller_errors[1].v))
    /\ [][op'.kind # "load" =>
             order_kept(sim.last_controller_errors, sim'.last_controller_errors)]_vars

\* both robots have an error recorded, the second one's recorded again by a
\* reload that failed, and the scalar is the first one's
C27_FirstOfTwo ==
    /\ op.kind = "reload"
    /\ sim.last_controller_errors = <<[k |-> "r1", v |-> "step traceback"],
                                      [k |-> "r2", v |-> "load traceback"]>>
    /\ sim.last_controller_error = Some("step traceback")

\* the first robot's error was cleared and the scalar is the second one's
C27_SecondAfterClear ==
    /\ op.kind = "clear"
    /\ sim.last_controller_errors = <<[k |-> "r2", v |-> "load traceback"]>>
    /\ sim.last_controller_error = Some("load traceback")
    /\ sim.step_index >= 1
(***************************************************************************)
(* The readings a controller is passed: two runs of a scene of two robots  *)
(* that differ only in the sensors of the first robot; sim and twin.sim    *)
(* are the two Simulator objects, twin also holds the second run's scene,  *)
(* the controller calls of its last tick and the number of ticks made.     *)
(***************************************************************************)
\* a rover with the given sensors
Watcher(sensors, module) ==
    RobotConfig(<<BodyConfig("base", 0, 1600, 50000, TRUE, 0)>>, <<>>,
                <<ActuatorConfig("left_motor", "base", 2000, 90, None)>>,
                sensors, module)

Watched(sensors) ==
    Scene("watched", Some(5), 120, <<Wall>>,
          <<ScenarioRobot("r1", Watcher(sensors, "ctrl_a"), 600000),
            ScenarioRobot("r2", Watcher(<<SensorConfig("imu", "imu", "base")>>, "ctrl_b"), 200000)>>)

\* the sensors the first robot may have
OtherSensors ==
    {<<>>, <<SensorConfig("imu", "imu", "base")>>, <<SensorConfig("encoder", "encoder", "base")>>,
     <<SensorConfig("front_distance", "distance", "base")>>}

MaxOwnTicks == 3

InitOwn ==
    /\ sim = NewSimulator(1)
    /\ twin = [sim |-> NewSimulator(1), scene |-> Watched(<<>>), seen |-> <<>>, calls |-> 0]
    /\ op = Call("new", None, NotLoaded)
    /\ ctl = NoCalls
    /\ heap = 0
    /\ snap = Idle /\ wheel = Idle /\ disk = Idle /\ world = Idle

\* each run loads its scene
LoadTwo ==
    \E mine \in OtherSensors, other \in OtherSensors :
        /\ sim.scenario_path = None
        /\ \E artifacts \in {[m \in modules_of(Watched(mine)) |-> "legacy"]} :
           \E L1 \in {load(sim, Watched(mine), artifacts, 1, 0)} :
           \E L2 \in {load(twin.sim, Watched(other), artifacts, 1, 0)} :
              /\ sim' = L1.sim
              /\ twin' = [twin EXCEPT !.sim = L2.sim, !.scene = Watched(other)]
              /\ op' = Call("load", L1.raised,
                            [scene |-> Watched(mine), artifacts |-> artifacts,
                             raised |-> L1.raised])
        /\ UNCHANGED <<snap, ctl, heap, wheel, disk, world>>

\* both runs step, their controllers doing the same
StepTwo ==
    \E behaviour \in [invoked(sim) -> {Drive(1000), Pass}] :
        /\ sim.scenario_path # None /\ twin.calls < MaxOwnTicks
        /\ \E T1 \in {step(sim, behaviour)} : \E T2 \in {step(twin.sim, behaviour)} :
              /\ sim' = T1.sim
              /\ ctl' = [calls |-> T1.calls, flagged |-> T1.flagged, phases |-> T1.phases]
              /\ twin' = [twin EXCEPT !.sim = T2.sim, !.seen = T2.calls, !.calls = @ + 1]
        /\ op' = Call("step", None, op.loaded)
        /\ UNCHANGED <<snap, heap, wheel, disk, world>>

NextOwn == LoadTwo \/ StepTwo

SpecOwn == InitOwn /\ [][NextOwn]_vars

\* the map a tick's calls passed to the controller of robot r
passed_to(calls, r) ==
    LET c == CHOOSE i \in 1..Len(calls) : calls[i].robot_id = r
    IN calls[c].readings

\* every map a tick's calls passed names only sensors of the robot called
own_keys(s, calls) ==
    \A c \in 1..Len(calls) :
        \A name \in DictKeys(calls[c].readings) :
            DictGet(s.sensor_owners, name, "") = calls[c].robot_id

\* C28: the map passed to robot r's controller on a tick contains only
\* readings of sensors owned by r, and two scenes that differ only in the
\* sensors of other robots pass identical maps to r's controller.
C28_OwnReadingsOnly ==
    op.kind = "step" =>
        /\ own_keys(sim, ctl.calls) /\ own_keys(twin.sim, twin.seen)
        /\ passed_to(ctl.calls, "r2") = passed_to(twin.seen, "r2")

\* the first half alone: only the robot's own sensors are named
C28_OwnKeysOnly ==
    op.kind = "step" => own_keys(sim, ctl.calls) /\ own_keys(twin.sim, twin.seen)

\* the first tick of two runs, the first robot with an IMU in one and with
\* no sensor in the other, the second robot where it was loaded and at rest
\* in both: the second robot's controller was passed one IMU reading in
\* each, and the two differ
C28_OtherSensorsShow ==
    /\ op.kind = "step" /\ sim.step_index = 1
    /\ op.loaded.scene = Watched(<<SensorConfig("imu", "imu", "base")>>)
    /\ twin.scene = Watched(<<>>)
    /\ DictGet(sim.bodies, "r2/base", <<>>) = DictGet(twin.sim.bodies, "r2/base", <<>>)
    /\ DictKeys(passed_to(ctl.calls, "r2")) = {"r2/imu"}
    /\ DictKeys(passed_to(twin.seen, "r2")) = {"r2/imu"}
    /\ passed_to(ctl.calls, "r2") # passed_to(twin.seen, "r2")
(***************************************************************************)
(* Loading over a scene that was loaded and stepped: the scenes of the     *)
(* main specification and one with no robot; snap holds the simulator as   *)
(* it was just before the last load.                                       *)
(***************************************************************************)
\* a world with a wall and no robot
Bare == Scene("bare", Some(3), 120, <<Wall>>, <<>>)

UsedScenes == {Duo, Solo, Bare}

InitUsed ==
    /\ sim = NewSimulator(1)
    /\ op = Call("new", None, NotLoaded)
    /\ ctl = NoCalls
    /\ heap = 0
    /\ snap = [before |-> NewSimulator(1)]
    /\ twin = Idle /\ wheel = Idle /\ disk = Idle /\ world = Idle

\* sim.load(path, world_cfg, robots=robots) on the simulator as it is
LoadUsed ==
    \E scene \in UsedScenes : \E artifacts \in [modules_of(scene) -> ErrorArtifacts] :
        /\ heap < MaxInstances
        /\ \E L \in {load(sim, scene, artifacts, 1, heap)} :
              /\ sim' = L.sim
              /\ heap' = L.heap
              /\ op' = Call("load", L.raised,
                            [scene |-> scene, artifacts |-> artifacts, raised |-> L.raised])
        /\ ctl' = NoCalls
        /\ snap' = [before |-> sim]
        /\ UNCHANGED <<twin, wheel, disk, world>>

NextUsed == LoadUsed \/ Step

SpecUsed == InitUsed /\ [][NextUsed]_vars

\* the number of controller objects the last load constructed
constructed(s) ==
    Cardinality({i \in 1..Len(s.controller_instances) : s.controller_instances[i].v # None})

\* the simulator a new Simulator is after the load that was made last (its
\* controller objects numbered as those of that load)
fresh_load(s) ==
    load(NewSimulator(1), op.loaded.scene, op.loaded.artifacts, 1, heap - constructed(s)).sim

\* C29: load() on a Simulator that has loaded and stepped another scene
\* leaves the state that load() of the same scene leaves on a new Simulator,
\* whether the new scene has robots or none: nothing of the old scene is
\* still referenced.
C29_LikeFresh ==
    op.kind = "load" => sim = fresh_load(sim)

\* the same for new scenes that have a robot
C29_LikeFreshWithRobots ==
    op.kind = "load" /\ Len(op.loaded.scene.robots) > 0 => sim = fresh_load(sim)

\* a scene with no robot was loaded over two robots that had ticked, and the
\* first robot's config and controller object are still the primary ones
C29_OldPrimaryKept ==
    /\ op.kind = "load" /\ op.loaded.scene = Bare
    /\ snap.before.step_index >= 1 /\ snap.before.robot_ids = <<"r1", "r2">>
    /\ sim.robot_ids = <<>> /\ sim.robot_configs = <<>> /\ sim.controller_instances = <<>>
    /\ sim.robot_cfg # None /\ sim.robot_cfg = snap.before.robot_cfg
    /\ sim.controller_instance # None
    /\ sim.controller_instance = snap.before.controller_instance
(***************************************************************************)
(* Reloading one robot's controller: two robots with a module each, or     *)
(* with one module between them, the modules loading or failing to import; *)
(* snap holds the arguments of the last reload.                            *)
(***************************************************************************)
\* two rovers that use the same controller module
Twins ==
    Scene("twins", Some(5), 120, <<Wall>>,
          <<ScenarioRobot("r1", Rover("ctrl_a"), 600000),
            ScenarioRobot("r2", Rover("ctrl_a"), 200000)>>)

SwapScenes == {Duo, Twins}

InitSwap ==
    /\ sim = NewSimulator(1)
    /\ op = Call("new", None, NotLoaded)
    /\ ctl = NoCalls
    /\ heap = 0
    /\ snap = [robot_id |-> "", artifact |-> "", keep_previous |-> FALSE]
    /\ twin = Idle /\ wheel = Idle /\ disk = Idle /\ world = Idle

LoadSwap ==
    /\ LoadScene(SwapScenes, ErrorArtifacts)
    /\ snap' = snap

\* sim.reload_controller(robot_id, keep_previous=...), the robot's module
\* loading or failing to import
ReloadOne ==
    \E rid \in Range(sim.robot_ids), artifact \in ErrorArtifacts, keep_previous \in BOOLEAN :
        /\ sim.scenario_path # None /\ op.loaded.raised = None
        /\ heap < MaxInstances
        /\ \E L \in {reload_controller([sim |-> sim, raised |-> None, heap |-> heap],
                                      rid, artifact, keep_previous)} :
              /\ sim' = L.sim
              /\ heap' = L.heap
              /\ op' = Call("reload", L.raised, op.loaded)
        /\ snap' = [robot_id |-> rid, artifact |-> artifact, keep_previous |-> keep_previous]
        /\ UNCHANGED <<twin, ctl, wheel, disk, world>>

NextSwap == LoadSwap \/ Step \/ ReloadOne

SpecSwap == InitSwap /\ [][NextSwap]_vars

\* the controller objects the simulator refers to
instances_of(s) ==
    {s.controller_instances[i].v[1].oid :
        i \in {j \in 1..Len(s.controller_instances) : s.controller_instances[j].v # None}}

\* what the simulator holds for a robot: its recorded error and its instance
held_for(s, rid) ==
    <<DictHas(s.last_controller_errors, rid), DictGet(s.last_controller_errors, rid, ""),
      DictHas(s.controller_instances, rid), DictGet(s.controller_instances, rid, None)>>

\* C30: a reload_controller(r) that succeeds removes r's recorded error and
\* installs a new controller instance for r, which the next tick calls; the
\* recorded errors and the controller instances of the other robots are
\* left as they were, also when the robots share a controller module.
C30_OnlyReloadedSwapped ==
    [][/\ op'.kind = "reload" /\ snap'.artifact = "legacy" =>
             /\ ~DictHas(sim'.last_controller_errors, snap'.robot_id)
             /\ DictGet(sim'.controller_instances, snap'.robot_id, None) # None
             /\ DictGet(sim'.controller_instances, snap'.robot_id, None)[1].oid
                    \notin instances_of(sim)
             /\ \A other \in Range(sim.robot_ids) \ {snap'.robot_id} :
                    held_for(sim', other) = held_for(sim, other)
       /\ op.kind = "reload" /\ snap.artifact = "legacy" /\ op'.kind = "step" =>
             \E c \in 1..Len(ctl'.calls) :
                 /\ ctl'.calls[c].robot_id = snap.robot_id
                 /\ ctl'.calls[c].oid
                        = DictGet(sim.controller_instances, snap.robot_id, None)[1].oid
      ]_vars

\* both robots had an error recorded (the first one's controller raised on a
\* tick, the second one's module failed at load); the second was reloaded:
\* its error is gone, it has an instance, and the first one's error is kept
C30_SecondReloaded ==
    /\ op.kind = "reload" /\ snap.robot_id = "r2" /\ snap.artifact = "legacy"
    /\ op.loaded.scene = Duo
    /\ op.loaded.artifacts["ctrl_b"] = "import_raises"
    /\ sim.step_index >= 1
    /\ sim.last_controller_errors = <<[k |-> "r1", v |-> "step traceback"]>>
    /\ DictGet(sim.controller_instances, "r2", None) # None
    /\ DictGet(sim.controller_instances, "r1", None) # None

\* two robots of one module, the first reloaded, and the tick after it
\* called the new instance of the first and the old one of the second
C30_SharedModule ==
    /\ op.kind = "step" /\ op.loaded.scene = Twins
    /\ snap.robot_id = "r1" /\ snap.artifact = "legacy"
    /\ Len(ctl.calls) = 2
    /\ ctl.calls[1].robot_id = "r1" /\ ctl.calls[1].oid = 3
    /\ ctl.calls[2].robot_id = "r2" /\ ctl.calls[2].oid = 2
====
